----------------------------- MODULE OpenConfig -----------------------------
(* CacheConfig of deprecated/src: reading a configuration string over a      *)
(* configuration, the values derived from it, and writing it out again.  A   *)
(* string is the record of its fields; ntok is the number of fields sscanf   *)
(* finds in the long form and short the number it finds in the short one.    *)
EXTENDS Integers

DEFAULT_SECTOR_SIZE == 32

\* What the letters stand for.
Letter ==
  [cache_type         |-> [N |-> "NORMAL", S |-> "SECTOR"],
   replacement_policy |-> [L |-> "LRU", F |-> "FIFO"],
   write_policy       |-> [R |-> "READ_ONLY", B |-> "WRITE_BACK", T |-> "WRITE_THROUGH",
                           E |-> "WRITE_EVICT", L |-> "LOCAL_WB_GLOBAL_WT"],
   alloc_policy       |-> [m |-> "ON_MISS", f |-> "ON_FILL", s |-> "ON_FILL"],
   write_alloc_policy |-> [N |-> "NO_WRITE_ALLOCATE", W |-> "WRITE_ALLOCATE",
                           F |-> "FETCH_ON_WRITE", L |-> "LAZY_FETCH_ON_READ"],
   mshr_type          |-> [A |-> "ASSOC", S |-> "SECTOR_ASSOC", F |-> "TEX_FIFO",
                           T |-> "SECTOR_TEX_FIFO"],
   set_index_func     |-> [L |-> "LINEAR", X |-> "BITWISE_XOR", H |-> "HASH_IPOLY",
                           P |-> "HASH_IPOLY", C |-> "CUSTOM"]]

\* The place of each number among the fields of the long form.
Place == [num_sets |-> 2, line_size |-> 3, associativity |-> 4,
          mshr_entries |-> 11, mshr_max_merge |-> 12, miss_queue_size |-> 13]
ShortPlace == [num_sets |-> 1, line_size |-> 2, associativity |-> 3]

log2_u32(x) == CHOOSE k \in 0 .. 31 : 2 ^ k = x

\* A port as wide as it was is kept if lines are a multiple of it.
compute_derived(c) ==
  [c EXCEPT !.line_size_log2    = log2_u32(c.line_size),
            !.num_sets_log2     = log2_u32(c.num_sets),
            !.atom_size         = IF c.cache_type = "SECTOR" THEN c.sector_size ELSE c.line_size,
            !.sector_chunk_size = IF c.cache_type = "SECTOR" THEN c.line_size \div c.sector_size
                                  ELSE 1,
            !.data_port_width   = IF @ = 0 \/ c.line_size % @ # 0 THEN c.line_size ELSE @]

DefaultConfig ==
  compute_derived(
    [num_sets |-> 64, line_size |-> 128, associativity |-> 4,
     sector_size |-> DEFAULT_SECTOR_SIZE, data_port_width |-> 0,
     mshr_entries |-> 16, mshr_max_merge |-> 4, miss_queue_size |-> 32,
     cache_type |-> "NORMAL", replacement_policy |-> "LRU", write_policy |-> "WRITE_BACK",
     alloc_policy |-> "ON_MISS", write_alloc_policy |-> "FETCH_ON_WRITE",
     set_index_func |-> "LINEAR", mshr_type |-> "ASSOC",
     line_size_log2 |-> 0, num_sets_log2 |-> 0, atom_size |-> 0, sector_chunk_size |-> 4])

\* sscanf stores the numbers it finds before it is known whether the string
\* is good; the switches store the policies up to the first unknown letter.
Scan(c, found, place, number) ==
  [f \in DOMAIN c |-> IF f \in DOMAIN place /\ found >= place[f] THEN number[f] ELSE c[f]]
Switches ==
  <<"cache_type", "replacement_policy", "write_policy", "alloc_policy",
    "write_alloc_policy", "mshr_type", "set_index_func">>
Known(s, f) == s.letter[f] \in DOMAIN Letter[f]
Switched(c, s) ==
  [f \in DOMAIN c |->
     IF \E i \in DOMAIN Switches : Switches[i] = f /\ \A j \in 1 .. i : Known(s, Switches[j])
     THEN Letter[f][s.letter[f]] ELSE c[f]]

parse_config_string(c, s) ==
  LET long == Scan(c, s.ntok, Place, s.number)
      geom == Scan(long, s.short, ShortPlace, s.number)
      good == \A f \in DOMAIN Letter : Known(s, f)
      all  == Switched(long, s)
      Read(ok, d) == [ok |-> ok, c |-> IF ok THEN compute_derived(d) ELSE d]
  IN  CASE s.none                  -> [ok |-> FALSE, c |-> c]
        [] ~s.none /\ s.ntok < 12  -> Read(s.short >= 3, geom)
        [] ~s.none /\ s.ntok >= 12 -> Read(good, all)

\* ON_FILL is written as f, HASH_IPOLY as P, and every MSHR type but ASSOC as
\* S.  The port width and what is derived are not written.
LetterOf(c, f) ==
  CASE c[f] = "ON_FILL" -> "f"
    [] c[f] = "HASH_IPOLY" -> "P"
    [] f = "mshr_type" /\ c[f] # "ASSOC" -> "S"
    [] OTHER -> CHOOSE l \in DOMAIN Letter[f] : Letter[f][l] = c[f]
to_config_string(c) ==
  [none |-> FALSE, ntok |-> 13, short |-> 0,
   letter |-> [f \in DOMAIN Letter |-> LetterOf(c, f)],
   number |-> [f \in DOMAIN Place |-> c[f]]]

-----------------------------------------------------------------------------
\* The strings that are tried: all policies, and one unknown letter at a time.
Numbers == {[num_sets |-> 16, line_size |-> z, associativity |-> 2, mshr_entries |-> 8,
             mshr_max_merge |-> 2, miss_queue_size |-> 4] : z \in {64, 256}}
GoodLetters ==
  [cache_type : {"N", "S"}, replacement_policy : {"L", "F"}, write_policy : {"R", "B", "T", "E", "L"},
   alloc_policy : {"m", "f", "s"}, write_alloc_policy : {"N", "W", "F", "L"},
   mshr_type : {"A", "S", "F", "T"}, set_index_func : {"L", "X", "H", "P", "C"}]
FirstLetters == CHOOSE l \in GoodLetters : TRUE
Letters == GoodLetters \cup {[FirstLetters EXCEPT ![f] = "?"] : f \in DOMAIN Letter}
Strings ==
  [none : {FALSE}, ntok : {13}, short : {0}, letter : Letters, number : Numbers] \cup
  [none : BOOLEAN, ntok : {0, 3, 12}, short : 0 .. 3, letter : {FirstLetters}, number : Numbers]

\* The derived values are those of the geometry and of the cache type.
Consistent(c) ==
  /\ c.line_size = 2 ^ c.line_size_log2 /\ c.num_sets = 2 ^ c.num_sets_log2
  /\ c.line_size = c.atom_size * c.sector_chunk_size
  /\ c.line_size % c.data_port_width = 0

(* An accepted string leaves a consistent configuration, whatever was there *)
(* before (compute_derived runs on every accepting path).                   *)
ASSUME AcceptedIsConsistent ==
  \A s \in Strings : LET r == parse_config_string(DefaultConfig, s) IN
    r.ok => Consistent(r.c)

(* A configuration that is written and read again is the same, but for the  *)
(* texture MSHRs, which come back as SECTOR_ASSOC.                          *)
ASSUME WrittenIsReadBack ==
  \A s \in Strings : LET c == parse_config_string(DefaultConfig, s).c IN
    Consistent(c) =>
      parse_config_string(DefaultConfig, to_config_string(c)) =
        [ok |-> TRUE,
         c |-> [c EXCEPT !.mshr_type = IF @ \in {"TEX_FIFO", "SECTOR_TEX_FIFO"}
                                       THEN "SECTOR_ASSOC" ELSE @]]

(* A refused string may leave a configuration that is not: the numbers are  *)
(* stored before the string is refused and nothing is derived from them.    *)
ASSUME RefusedLeavesStale ==
  \E s \in Strings : LET r == parse_config_string(DefaultConfig, s) IN
    ~r.ok /\ ~Consistent(r.c)
=============================================================================
