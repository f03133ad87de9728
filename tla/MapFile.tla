------------------------------ MODULE MapFile -------------------------------
(***************************************************************************)
(* unordered_map_file together with mmap_allocator: the map whose slots    *)
(* are a shared mapping of a named file, over the lives of its objects and *)
(* of the programs that use them.  M_file is the mapping while the map is  *)
(* open, and the content of the file under the name while it is not; since *)
(* the mapping is shared, what the map writes is in the file at once.      *)
(*                                                                         *)
(* A slot of zero bytes, which is what ftruncate64 adds, has a cleared     *)
(* free flag: it is taken.  A block is taken to be copied in one step.     *)
(***************************************************************************)
EXTENDS MapRehash, Iterators

CONSTANTS
  DefaultChoices,   \* the initial value of M_bucket_choices
  ZeroKey, ZeroVal  \* the key and the value that zero bytes stand for

ASSUME DefaultAssumption == DefaultChoices \in ChoiceSets
ASSUME ZeroAssumption    == ZeroKey \in Key /\ Hash[ZeroKey] = 0 /\ ZeroVal \in Value

VARIABLES
  opened,    \* there is a map on the file
  M_delete,  \* its destructor is to wipe the file; FALSE when there is none
  linked,    \* the name still leads to the file that is mapped
  doomed     \* a moved-from map is around whose destructor will wipe the name

life     == <<opened, M_delete, linked, doomed>>
fileVars == <<vars, life>>

ZeroSlot == [key |-> ZeroKey, val |-> ZeroVal]

NoSlots == [i \in Slots(0) |-> Free]

(* ftruncate64 to B slots. *)
Truncated(t, B) == [i \in Slots(B) |-> IF i \in DOMAIN t THEN t[i] ELSE ZeroSlot]

FileInit ==
  /\ Init
  /\ opened = TRUE /\ linked = TRUE
  /\ M_delete = FALSE /\ doomed = FALSE

-----------------------------------------------------------------------------
(* The end of a map. *)

(* Nobody has the map any more and the file has the B slots t, of which    *)
(* nothing is left under the name if that led elsewhere.                   *)
Leaves(t, B) ==
  /\ opened' = FALSE /\ M_delete' = FALSE /\ linked' = TRUE
  /\ M_file' = IF linked THEN t ELSE NoSlots
  /\ M_buckets' = IF linked THEN B ELSE 0
  /\ M_elem' = 0
  /\ M_bucket_choices' = DefaultChoices
  /\ status' = "running"

Open == opened /\ status = "running"

(* Mutant of Close: the destructor wipes whatever M_delete says. *)
CloseWipes ==
  /\ Open
  /\ Leaves(NoSlots, 0)
  /\ ret' = NoCall
  /\ UNCHANGED doomed

(* ~unordered_map_file: unmap, and wipe if asked to. *)
Close ==
  /\ Open
  /\ IF M_delete THEN Leaves(NoSlots, 0) ELSE Leaves(M_file, M_buckets)
  /\ ret' = NoCall
  /\ UNCHANGED doomed

(* The program is stopped between two calls, or in one it never leaves. *)
Kill ==
  /\ opened
  /\ Leaves(M_file, M_buckets)
  /\ ret' = NoCall
  /\ doomed' = FALSE

-----------------------------------------------------------------------------
(* The beginning of a map: its constructors. *)

Opens(t, B, choices, elem) ==
  /\ ~opened /\ opened' = TRUE
  /\ M_file' = t
  /\ M_buckets' = B
  /\ M_elem' = elem
  /\ M_bucket_choices' = choices
  /\ UNCHANGED <<status, M_delete, linked, doomed>>

(* On a file whose content does not matter.  A refused size leaves a map    *)
(* without slots, which is not followed.                                   *)
OpenEmpty(buckets, choices) ==
  LET B == next_larger(choices, buckets)
  IN  /\ B # Refused
      /\ Opens([i \in Slots(B) |-> Free], B, choices, 0)
      /\ ret' = NoCall

(* Mutant of Reopen: the constructor does not count what it finds. *)
ReopenUncounted(buckets) ==
  LET B == next_larger(DefaultChoices, buckets)
  IN  /\ B # Refused
      /\ Opens(Truncated(M_file, B), B, DefaultChoices, 0)
      /\ ret' = [NoCall EXCEPT !.ok = TRUE]

(* The constructor with an argument "preserve", which it does not read:    *)
(* the slots stay where they are whatever their number was, and those that *)
(* are not marked free are counted.                                        *)
Reopen(buckets) ==
  LET B == next_larger(DefaultChoices, buckets)
      t == Truncated(M_file, B)
  IN  /\ B # Refused
      /\ Opens(t, B, DefaultChoices, Cardinality(Taken(KeysOf(t, B), B)))
      /\ ret' = [NoCall EXCEPT !.ok = TRUE]

(* The move constructor.  The source keeps its allocator, with the name,   *)
(* and its M_delete, but no slots; the new map has the default choices.    *)
(* One doomed source at a time is followed.                                *)
MoveConstruct ==
  /\ Open /\ ~doomed
  /\ M_bucket_choices' = DefaultChoices
  /\ doomed' = M_delete
  /\ ret' = NoCall
  /\ UNCHANGED <<table, status, opened, M_delete, linked>>

(* The destructor of the source. *)
DestroyMovedFrom ==
  /\ doomed /\ doomed' = FALSE
  /\ ret' = NoCall
  /\ IF opened
     THEN linked' = FALSE /\ UNCHANGED <<M_file, M_buckets>>
     ELSE M_file' = NoSlots /\ M_buckets' = 0 /\ UNCHANGED linked
  /\ UNCHANGED <<M_elem, M_bucket_choices, status, opened, M_delete>>

-----------------------------------------------------------------------------
(* The calls in between. *)

Call == opened /\ RehashNext /\ UNCHANGED life

destruct_is_wipe(b) ==
  /\ Open
  /\ M_delete' = b
  /\ ret' = NoCall
  /\ UNCHANGED <<table, M_bucket_choices, status, opened, linked, doomed>>

(* Sizes above the present one that a call may ask for. *)
GrownSizes ==
  {B \in {EmplaceBuckets} \cup {RehashSize(n) : n \in Requests} : M_buckets < B /\ B # Refused}

(* When the name leads elsewhere, mremap sizes another file, and the slots *)
(* the mapping gains have none behind them: unless they fit in the last    *)
(* page, the first access to them is a trap.                               *)
GrowUnlinked ==
  /\ Open /\ ~linked
  /\ M_buckets > 0 /\ GrownSizes # {}
  /\ Traps
  /\ UNCHANGED <<M_bucket_choices, life>>

-----------------------------------------------------------------------------
(* The program is stopped inside a call.  The slots t it leaves are in the *)
(* file; k is the key the call is about.                                   *)
Stop(t, B, k) ==
  /\ Leaves(t, B)
  /\ ret' = [NoCall EXCEPT !.key = k]
  /\ doomed' = FALSE

(* Between the growth of the file and the freeing of its new slots, also   *)
(* because mremap has failed and the map goes on with MAP_FAILED.          *)
StopGrowing ==
  /\ Open /\ M_buckets > 0
  /\ \E B \in GrownSizes : \E freed \in M_buckets .. B - 1 :
       Stop(Truncated(Resized(M_file, freed), B), B, Free)

(* Between two copies of the loop of emplace that makes room at index, or  *)
(* before the element is constructed there.                                *)
StopEmplace(k) ==
  LET B   == EmplaceBuckets
      t   == Resized(M_file, B)
      res == open_address_emplace_index(KeysOf(t, B), k, B)
  IN  /\ Open /\ M_buckets > 0
      /\ ~EmplaceLoops(KeysOf(t, B), k, B) /\ res.inserted
      /\ \E d \in 0 .. Distance(res.index, res.hole, B) :
           Stop(ShiftUp(t, Advance(res.index, d, B), res.hole, B), B, k)

(* Between two copies of the loop of erase, or before the last slot is     *)
(* freed.                                                                  *)
StopErase(k) ==
  LET B   == M_buckets
      res == open_address_erase_index(keys, k, B)
  IN  /\ Open /\ B > 0
      /\ res.last # B
      /\ \E d \in 0 .. Distance(res.start, res.last, B) :
           Stop(ShiftDown(M_file, res.start, Advance(res.start, d, B), B), B, k)

(* Between the steps of Unwind: a chain is unwound up to its link n, or     *)
(* also that link is copied but its old slot not freed.                    *)
StoppedUnwinding(t, chain) ==
  {Popped(t, chain, n) : n \in 0 .. Len(chain) - 1}
    \cup {CopyOnly(Popped(t, chain, n - 1), chain[Len(chain) - n], chain[Len(chain) - n + 1]) :
            n \in 1 .. Len(chain) - 1}

(* Inside the second pass of rehash, after the rounds of n slots, or       *)
(* before the file is cut.                                                 *)
StopMoving(B, plan) ==
  \E n \in 0 .. M_buckets :
    \E st \in {MovedSoFar(M_file, plan, n, M_buckets, B)} :
      LET begun  == n < M_buckets /\ st.first[n] \notin {Invalid, n}
          inside == IF begun THEN StoppedUnwinding(st.t, ChainFrom(st.first, n)) ELSE {}
      IN  \E t \in {st.t} \cup inside : Stop(t, Max({M_buckets, B}), Free)

StopRehash(buckets) ==
  LET B    == RehashSize(buckets)
      plan == PlanTo(B)
  IN  /\ Open
      /\ B \notin {M_buckets, Refused} /\ ~Unmapped(B)
      /\ ~plan.loops /\ StopMoving(B, plan)

(* clear has freed the slots below n. *)
StopClear ==
  /\ Open
  /\ \E n \in Slots(M_buckets) :
       Stop([i \in Slots(M_buckets) |-> IF i < n THEN Free ELSE M_file[i]], M_buckets, Free)

-----------------------------------------------------------------------------
Wiping == \E b \in BOOLEAN : destruct_is_wipe(b)

Opening(buckets) == Reopen(buckets) \/ \E choices \in ChoiceSets : OpenEmpty(buckets, choices)

Stopping ==
  \/ StopGrowing \/ StopClear
  \/ \E k \in Key : StopEmplace(k) \/ StopErase(k)
  \/ \E n \in Requests : StopRehash(n)

FileNext ==
  \/ Call \/ Wiping \/ GrowUnlinked
  \/ Close \/ Kill \/ Stopping
  \/ MoveConstruct \/ DestroyMovedFrom
  \/ \E n \in Requests : Opening(n)

FileSpec == FileInit /\ [][FileNext]_fileVars
-----------------------------------------------------------------------------
(* Properties. *)

FileTypeOK ==
  /\ TypeOK
  /\ opened \in BOOLEAN /\ M_delete \in BOOLEAN
  /\ linked \in BOOLEAN /\ doomed \in BOOLEAN

(* While a map is open its size() is the number of taken slots, through    *)
(* destructors, kills and the constructor that counts what it finds.       *)
CountWhenOpen == opened => CountMatches

(* No call about one key, whether it returns or is stopped between two of  *)
(* its copies, loses, changes or invents an element of another key.  A     *)
(* growth that is stopped loses none at all and leaves exactly the element *)
(* that zero bytes stand for besides; a clear that is stopped invents      *)
(* none.  Nor does a rehash that is stopped lose or invent one, if no      *)
(* chain closes and no key is there twice.                                 *)
SparesOthers(k) == OthersThan(k, M_file', M_buckets') = OthersThan(k, M_file, M_buckets)

Elements == OthersThan(Free, M_file, M_buckets)

NoChainCloses == \A n \in Requests : RehashSize(n) = 0 \/ ~HasCycle(PlanTo(RehashSize(n)))

StoppedOrNot ==
  [][opened /\ linked =>
       /\ ret'.key # Free => SparesOthers(ret'.key)
       /\ StopGrowing => Elements' = Elements \cup {ZeroSlot}
       /\ StopClear => Elements' \subseteq Elements
       /\ UniqueKeys /\ NoChainCloses =>
            \A n \in Requests : StopRehash(n) => Elements' = Elements]_fileVars

(* Where n steps of ++ lead from begin(), and n steps of -- from i. *)
Walk(n) ==
  LET at[m \in 0 .. n] == IF m = 0 THEN begin(keys, M_buckets) ELSE Forward(keys, at[m - 1], M_buckets)
  IN  at

WalkBack(i, n) ==
  LET at[m \in 0 .. n] == IF m = 0 THEN i ELSE Backward(keys, at[m - 1])
  IN  at

(* size() steps of ++ lead from begin() to end() through every taken slot, *)
(* and -- leads back the same way.                                         *)
WalkVisitsAll ==
  opened /\ M_buckets > 0 =>
    LET at   == Walk(M_elem)
        back == WalkBack(M_buckets, M_elem)
    IN  /\ {at[m] : m \in 0 .. M_elem - 1} = Occupied
        /\ \A m \in 0 .. M_elem : back[M_elem - m] = at[m]

(* erase(iterator) returns the erased slot.  An element stands there again *)
(* if the next slot held one away from its home; otherwise the slot is     *)
(* free, which the iterator does not tell, and it is for the caller to     *)
(* take the step of ++.  A loop that knows this neither skips nor repeats  *)
(* an element: those from there on are those that were after the erased    *)
(* one.                                                                    *)
ElementsFrom(i, t, B) == {t[j] : j \in {n \in i .. B - 1 : t[n] # Free}}

Refills(i) == i + 1 \in Occupied /\ Home(keys[i + 1], M_buckets) # i + 1

GoesOn(i) ==
  LET next == IF Refills(i) THEN ret'.at ELSE Forward(keys', i, M_buckets')
  IN  /\ ret'.at \in Occupied' <=> Refills(i)
      /\ ElementsFrom(next, M_file', M_buckets') = ElementsFrom(i + 1, M_file, M_buckets)

EraseKeepsWalk ==
  [][opened /\ ret'.ok /\ ret'.val = None =>
       \A i \in Occupied : EraseAt(i) => GoesOn(i)]_fileVars

(* The map and its file implement DurableDictionary: what was stored is    *)
(* there after a close, a kill and a reopening, and gone after a wipe.     *)
Durable ==
  INSTANCE DurableDictionary
    WITH dict <- Contents, ret <- [ok |-> ret.ok, val |-> ret.val], wipe <- M_delete

ImplementsDurable == Durable!DurableSpec

(* What destruct_is_wipe says: "If false the data on disk will not be      *)
(* bound by the lifetime of the object" (unordered_map.h:1512).            *)
FlagDecides == [][opened /\ ~opened' /\ ~M_delete => Contents' = Contents]_fileVars
=============================================================================
