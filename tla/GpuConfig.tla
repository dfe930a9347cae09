----------------------------- MODULE GpuConfig -----------------------------
(***************************************************************************)
(* cache_config::init: from the fields of a configuration string to a      *)
(* configuration, or to nothing when the code prints an error, aborts or   *)
(* runs into an assertion.  A string is a record of its fields: the seven  *)
(* letters, ntok, the number of fields sscanf found, and the numbers the   *)
(* checks look at.  The other modules take a configuration of Config as    *)
(* given; the assumptions at the end say that init delivers those.         *)
(***************************************************************************)
EXTENDS TagArray

SECTOR_SIZE        == 32
SECTOR_CHUNCK_SIZE == 4
MAX_DEFAULT_CACHE_SIZE_MULTIBLIER == 4

(* What the letters stand for.                                             *)
cache_type         == [N |-> "NORMAL", S |-> "SECTOR"]
replacement_policy == [L |-> "LRU", F |-> "FIFO"]
write_policy       == [R |-> "READ_ONLY", B |-> "WRITE_BACK", T |-> "WRITE_THROUGH",
                       E |-> "WRITE_EVICT", L |-> "LOCAL_WB_GLOBAL_WT"]
alloc_policy       == [m |-> "ON_MISS", f |-> "ON_FILL", s |-> "STREAMING"]
mshr_type          == [F |-> "TEX_FIFO", T |-> "SECTOR_TEX_FIFO", A |-> "ASSOC",
                       S |-> "SECTOR_ASSOC"]
write_alloc_policy == [N |-> "NO_WRITE_ALLOCATE", W |-> "WRITE_ALLOCATE",
                       F |-> "FETCH_ON_WRITE", L |-> "LAZY_FETCH_ON_READ"]
set_index_function == [H |-> "FERMI_HASH", P |-> "HASH_IPOLY", C |-> "CUSTOM",
                       L |-> "LINEAR", X |-> "BITWISE_XORING"]

(* A string is long enough, and every letter is known.                     *)
Scanned(s) ==
  /\ s.ntok >= 12
  /\ s.ct \in DOMAIN cache_type /\ s.rp \in DOMAIN replacement_policy
  /\ s.wp \in DOMAIN write_policy /\ s.ap \in DOMAIN alloc_policy
  /\ s.mt \in DOMAIN mshr_type /\ s.wap \in DOMAIN write_alloc_policy
  /\ s.sif \in DOMAIN set_index_function

(* A texture cache has the size of its result FIFO and no port width.      *)
EnoughFields(s) == s.mt \in {"F", "T"} => s.ntok = 14

(* STREAMING is allocation on fill with a flag of its own.                 *)
StreamingOnFill(ap) == IF ap = "STREAMING" THEN "ON_FILL" ELSE ap

atom_sz(s) == IF s.ct = "S" THEN SECTOR_SIZE ELSE s.line_sz

(* "detect invalid configuration".                                         *)
OnFillAllowed(s) ==
  StreamingOnFill(alloc_policy[s.ap]) = "ON_FILL" =>
    s.wp # "B" /\ s.wap \notin {"F", "L"}

SectorLineSize(s) ==
  s.ct = "S" => /\ s.line_sz \div SECTOR_SIZE = SECTOR_CHUNCK_SIZE
                /\ s.line_sz % SECTOR_SIZE = 0

(* The port is as wide as a line unless the string says otherwise.         *)
data_port_width(s) == IF s.ntok < 15 \/ s.port = 0 THEN s.line_sz ELSE s.port

init(s) ==
  IF ~(/\ Scanned(s) /\ EnoughFields(s) /\ OnFillAllowed(s)
       /\ SectorLineSize(s) /\ s.line_sz % data_port_width(s) = 0)
  THEN {}
  ELSE {[ type        |-> cache_type[s.ct],
          alloc       |-> StreamingOnFill(alloc_policy[s.ap]),
          write       |-> write_policy[s.wp],
          write_alloc |-> write_alloc_policy[s.wap],
          mshr        |-> mshr_type[s.mt],
          defer       |-> d ] : d \in BOOLEAN}     \* set_defer_hit_response

-----------------------------------------------------------------------------
(* Sizes *)

get_num_lines(s)              == s.nset * s.assoc
get_max_num_lines(s, multiplier) == multiplier * s.nset * s.assoc
get_max_assoc(s, multiplier)     == multiplier * s.assoc

(* l1d_cache_config: the L1 may grow to the whole of the unified cache.    *)
get_max_cache_multiplier(s, unified) ==
  IF unified = 0 THEN MAX_DEFAULT_CACHE_SIZE_MULTIBLIER
  ELSE unified \div ((s.nset * s.assoc * s.line_sz) \div 1024)

(* Clearing the bits of an address below a size that is a power of two.    *)
block_addr(s, addr) == addr - (addr % s.line_sz)
mshr_addr(s, addr)  == addr - (addr % atom_sz(s))

-----------------------------------------------------------------------------
Letters(f) == DOMAIN f \cup {"?"}

Strings ==
  [ ct : Letters(cache_type), rp : {"L"}, wp : Letters(write_policy),
    ap : Letters(alloc_policy), mt : Letters(mshr_type),
    wap : Letters(write_alloc_policy), sif : {"L", "?"}, ntok : {11, 14, 15},
    nset : {4}, assoc : {2}, line_sz : {128, 64}, port : {0, 32} ]

(* init accepts exactly the configurations the models take as given, and   *)
(* SECTOR_ASSOC with sectors, which ValidConfig leaves out.                *)
ASSUME InitAcceptsValidConfig ==
  {c \in UNION {init(s) : s \in Strings} : c.mshr = "SECTOR_ASSOC" => c.type = "NORMAL"}
    = ValidConfig

(* An MSHR address names what Key names: the block and, with sectors, the  *)
(* sector; the sector found from it is the one the access falls into.      *)
ASSUME KeysMatchAddresses ==
  \A s \in {x \in Strings : init(x) # {}} : \A a, b \in {32 * i : i \in 0 .. 9} :
    mshr_addr(s, a) = mshr_addr(s, b) <=>
      /\ block_addr(s, a) = block_addr(s, b)
      /\ s.ct = "S" => (a % s.line_sz) \div SECTOR_SIZE = (b % s.line_sz) \div SECTOR_SIZE

(* A cache that has grown to its largest associativity (set_assoc) has the *)
(* lines the tag array was built with.                                     *)
ASSUME GrowthFits ==
  \A s \in {x \in Strings : init(x) # {}} : \A unified \in {0, 2, 4} :
    LET m == get_max_cache_multiplier(s, unified) IN
    (unified = 0 \/ s.line_sz = 128) =>
      get_num_lines([s EXCEPT !.assoc = get_max_assoc(s, m)]) = get_max_num_lines(s, m)
=============================================================================
