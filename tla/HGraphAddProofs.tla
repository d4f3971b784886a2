--------------------------- MODULE HGraphAddProofs ---------------------------
(***************************************************************************)
(* Proofs about HGraphAdd, for any number of threads, labels and vectors and    *)
(* any capacity.  The properties of single states follow from one inductive    *)
(* invariant, IInv, whose parts say who holds a lock, who owns an id and who     *)
(* carries a slot between two steps of an Add.                                *)
(***************************************************************************)
EXTENDS HGraphAdd, FiniteSetTheorems, TLAPS

(***************************************************************************)
(* The inductive invariant, in parts.  Each part is preserved by a step from    *)
(* a state in which it and the parts before it hold.                          *)
(***************************************************************************)
Unclaimed == {"idle", "lookup", "claim", "grow"}
Probing == {"read_lock", "await_resize", "share_global", "probe"}
Slotted == {"ensure", "ensure_grow", "relock", "store", "publish"}
Placing == Slotted \cup {"allocate", "link"}
Sharing == {"probe", "bind_duplicate", "track", "allocate", "store", "publish", "link"}

(* Who holds the locks, and what the capacity covers. *)
LockInv ==
  /\ add_owner # None => add_sharers = {}
  /\ total_count <= max_capacity
  /\ \A t \in Thread :
       /\ pc[t] = "grow" => /\ add_owner = t /\ total_count < MaxIds
                            /\ max_capacity < RoundUp(total_count + 1)
       /\ pc[t] \in Sharing => t \in global_sharers
       /\ Dedup => pc[t] \notin {"write", "writing"}
       /\ ~Dedup => pc[t] \notin Slotted \cup {"allocate", "bind_duplicate", "track"}

(* What CheckStructure found out stays true until the structure changes. *)
StructureInv ==
  \A t \in Thread :
    /\ pc[t] \in Probing => (add_owner = t <=> unique_add_needs_structure_update(row[t].level))
    /\ pc[t] = "own_global" =>
         add_owner = t /\ unique_add_needs_structure_update(row[t].level)
    /\ pc[t] \in Placing => bottom # {}

(* An id belongs to one Add from the claim until it is published. *)
VecsKnown == \A t \in Thread : pc[t] # "idle" => row[t].vec \in Vec

IdsOwned ==
  \A t \in Thread : pc[t] \notin Unclaimed =>
    /\ row[t].id < total_count
    /\ row[t].vec = vecs[row[t].id]
    /\ row[t].id \notin bottom

IdsDistinct ==
  \A t, u \in Thread :
    t # u /\ pc[t] \notin Unclaimed /\ pc[u] \notin Unclaimed => row[t].id # row[u].id

IdsFresh == \A i \in InnerId : i >= total_count => i \notin bottom /\ slot[i] = None

IdInv == VecsKnown /\ IdsOwned /\ IdsDistinct /\ IdsFresh

(* A slot is bound, or carried by one Add, or beyond physical_count_. *)
SlotsBelow ==
  /\ physical_count <= max_capacity
  /\ \A i \in InnerId : slot[i] # None => slot[i] < physical_count /\ slot[i] < capacity

BoundWhenVisible ==
  /\ \A i \in bottom : slot[i] # None
  /\ \A t \in Thread : /\ pc[t] \notin Unclaimed \cup {"track", "link"} => slot[row[t].id] = None
                       /\ pc[t] = "link" => slot[row[t].id] # None
                       /\ pc[t] = "bind_duplicate" => row[t].group \in bottom

SlotsCarried ==
  \A t \in Thread :
    /\ pc[t] \in Slotted => /\ row[t].slot < physical_count
                            /\ \A i \in InnerId : slot[i] # row[t].slot
    /\ pc[t] \in {"relock", "store", "publish"} => row[t].slot < capacity

SlotsDistinct ==
  \A t, u \in Thread :
    t # u /\ pc[t] \in Slotted /\ pc[u] \in Slotted => row[t].slot # row[u].slot

SlotInv == Dedup => SlotsBelow /\ BoundWhenVisible /\ SlotsCarried /\ SlotsDistinct

(* The codes of the bound slots are written. *)
CodeInv ==
  Dedup =>
    /\ \A i \in InnerId : slot[i] # None => code[slot[i]] # None
    /\ \A t \in Thread : pc[t] = "publish" => code[row[t].slot] = row[t].vec

(* They are the vectors the elements were added with, when the first Add runs alone. *)
FirstInv ==
  ~ConcurrentFirst => \A t \in Thread : pc[t] # "idle" =>
    /\ total_count = 0 => row[t].first
    /\ row[t].first => bottom = {} /\ \A u \in Thread \ {t} : pc[u] = "idle"

FaithInv ==
  Dedup =>
    /\ \A i \in InnerId : slot[i] # None => code[slot[i]] = vecs[i]
    /\ \A t \in Thread : pc[t] = "bind_duplicate" => code[slot[row[t].group]] = row[t].vec

(* Without deduplication a code is written before the element is linked. *)
PlainInv ==
  ~Dedup /\ ~SupportForceRemove =>
    /\ capacity = max_capacity
    /\ \A t \in Thread :
         /\ pc[t] = "writing" => t \in add_sharers /\ row[t].reallocs = reallocs
         /\ pc[t] \notin Unclaimed \cup {"label", "write", "writing"} => code[row[t].id] = row[t].vec
    /\ \A i \in bottom : code[i] = vecs[i] /\ vecs[i] \in Vec

(* No two elements have a label in common if no two concurrent callers do. *)
LabelInv ==
  ~SameLabel =>
    /\ \A t \in Thread : pc[t] # "idle" => row[t].label \in Label
    /\ \A t, u \in Thread :
         t # u /\ pc[t] # "idle" /\ pc[u] # "idle" => row[t].label # row[u].label
    /\ \A t \in Thread : pc[t] \in {"claim", "grow", "label"} => ~LabelTaken(row[t].label)
    /\ LabelsUnique

(* Every slot handed out is held by an element: bound to it or carried by its Add.  *)
HoldsSlot(i, s) ==
  \/ slot[i] = s
  \/ \E t \in Thread : pc[t] \in Slotted /\ row[t].id = i /\ row[t].slot = s

SlotCount == 0 .. physical_count - 1

HeldInv ==
  Dedup => \A s \in SlotCount : \E i \in InnerId : i < total_count /\ HoldsSlot(i, s)

(* A group is made of claimed ids; the one an Add was told to join has its vector.   *)
GroupInv ==
  Dedup =>
    /\ \A i \in InnerId : /\ vecs[i] = vecs[group[i]]
                          /\ i < total_count => group[i] < total_count
                          /\ i >= total_count => group[i] = i
    /\ \A t \in Thread : pc[t] \in {"bind_duplicate", "track"} =>
         row[t].group < total_count /\ vecs[row[t].group] = row[t].vec

-----------------------------------------------------------------------------
(* Rounding n up to a multiple of d does not go below n. *)
LEMMA DivisionCovers ==
  ASSUME NEW n \in Nat, NEW d \in Nat \ {0}
  PROVE  ((n + d - 1) \div d) * d \in Nat /\ ((n + d - 1) \div d) * d >= n
<1> DEFINE m == n + d - 1
<1>1. m \in Nat /\ m >= n
  OBVIOUS
<1>2. m = d * (m \div d) + (m % d) /\ m % d \in 0 .. d - 1 /\ m \div d \in Nat
  BY <1>1
<1> QED BY <1>1, <1>2

(* Rounding down to a multiple of d is monotone. *)
LEMMA DivisionMonotone ==
  ASSUME NEW a \in Nat, NEW b \in Nat, a <= b, NEW d \in Nat \ {0}
  PROVE  (a \div d) * d <= (b \div d) * d
<1>1. a = d * (a \div d) + (a % d) /\ a % d \in 0 .. d - 1 /\ a \div d \in Nat
  OBVIOUS
<1>2. b = d * (b \div d) + (b % d) /\ b % d \in 0 .. d - 1 /\ b \div d \in Nat
  OBVIOUS
<1>3. a \div d <= b \div d
  BY <1>1, <1>2
<1> QED BY <1>1, <1>2, <1>3

(* next_multiple_of_power_of_two never returns less than it was given. *)
LEMMA RoundUpCovers ==
  ASSUME NEW n \in Nat
  PROVE  RoundUp(n) \in Nat /\ RoundUp(n) >= n
  BY BoundsArePositive, DivisionCovers DEF RoundUp

(* next_multiple_of_power_of_two is monotone. *)
LEMMA RoundUpMonotone ==
  ASSUME NEW a \in Nat, NEW b \in Nat, a <= b
  PROVE  RoundUp(a) <= RoundUp(b)
<1>1. a + ResizeStep - 1 \in Nat /\ b + ResizeStep - 1 \in Nat
  BY BoundsArePositive
<1> QED BY <1>1, BoundsArePositive, DivisionMonotone DEF RoundUp

(* The capacities an index of the bound reaches stay within MaxSlots. *)
LEMMA SlotBounds ==
  /\ MaxSlots \in Nat /\ MaxSlots >= MaxIds /\ RoundUp(InitCapacity) \in 0 .. MaxSlots
  /\ InnerId \subseteq Slot /\ 0 \in InnerId /\ 0 \in Slot
  /\ \A n \in 0 .. MaxIds : RoundUp(n) \in 0 .. MaxSlots /\ RoundUp(n) >= n
<1>1. RoundUp(InitCapacity) \in Nat /\ RoundUp(MaxIds) \in Nat /\ RoundUp(MaxIds) >= MaxIds
  BY BoundsArePositive, RoundUpCovers
<1>2. ASSUME NEW n \in 0 .. MaxIds
      PROVE  RoundUp(n) \in Nat /\ RoundUp(n) >= n /\ RoundUp(n) <= RoundUp(MaxIds)
  BY BoundsArePositive, RoundUpCovers, RoundUpMonotone
<1> QED BY <1>1, <1>2, BoundsArePositive DEF MaxSlots, Slot, InnerId

-----------------------------------------------------------------------------
(* Taking an id, a slot or a group keeps the rows of the threads well typed. *)
LEMMA RowsTyped ==
  ASSUME NEW r \in [Thread -> Row], NEW t \in Thread
  PROVE  /\ \A i \in InnerId : [r EXCEPT ![t].id = i] \in [Thread -> Row]
         /\ \A s \in Slot : [r EXCEPT ![t].slot = s] \in [Thread -> Row]
         /\ \A i \in InnerId : [r EXCEPT ![t].group = i] \in [Thread -> Row]
<1>1. ASSUME NEW i \in InnerId PROVE [r EXCEPT ![t].id = i] \in [Thread -> Row]
  BY DEF Row
<1>2. ASSUME NEW s \in Slot PROVE [r EXCEPT ![t].slot = s] \in [Thread -> Row]
  BY DEF Row
<1>3. ASSUME NEW i \in InnerId PROVE [r EXCEPT ![t].group = i] \in [Thread -> Row]
  BY DEF Row
<1> QED BY Zenon, <1>1, <1>2, <1>3

(* The index as the constructor leaves it is well typed. *)
LEMMA TypeInit == Init => TypeOK
<1>1. NoRow \in Row
  BY SlotBounds DEF NoRow, Row
<1>2. RoundUp(InitCapacity) \in 0 .. MaxSlots /\ MaxSlots \in Nat /\ MaxIds \in Nat
  BY Zenon, SlotBounds, BoundsArePositive
<1>3. Init => capacity \in Nat /\ pc \in [Thread -> PCs] /\ row \in [Thread -> Row]
  BY <1>1, <1>2 DEF Init, PCs
<1>4. Init => /\ label \in [InnerId -> Label \cup {None}] /\ vecs \in [InnerId -> Vec \cup {None}]
              /\ slot \in [InnerId -> Slot \cup {None}] /\ code \in [Slot -> Vec \cup {None}]
              /\ group \in [InnerId -> InnerId]
  BY Zenon DEF Init
<1>5. Init => /\ total_count \in 0 .. MaxIds /\ max_capacity \in 0 .. MaxSlots
              /\ physical_count \in 0 .. MaxSlots /\ height \in Int /\ reallocs \in Nat
  BY <1>2 DEF Init
<1>6. Init => /\ add_owner \in Thread \cup {None} /\ add_sharers \subseteq Thread
              /\ global_sharers \subseteq Thread /\ resize_owner \in Thread \cup {None}
              /\ resize_pending \in BOOLEAN /\ bottom \subseteq InnerId
  BY Zenon DEF Init
<1> QED BY Zenon, <1>3, <1>4, <1>5, <1>6 DEF TypeOK

(* Every step of an Add keeps the types; Grow needs that the holder of add_mutex_   *)
(* still has an id to take.                                                      *)
LEMMA TypeStep ==
  ASSUME TypeOK, LockInv, [Next]_vars
  PROVE  TypeOK'
<1> USE BoundsArePositive, SlotBounds, LevelsAreIntegers DEF TypeOK, Row, PCs, storage, locks,
   graph
<1>1. CASE UNCHANGED vars
  BY Zenon, <1>1 DEF vars
<1>2. ASSUME NEW t \in Thread, NEW l \in Label, NEW v \in Vec, NEW level \in Levels,
            Start(t, l, v, level)
     PROVE  TypeOK'
  BY Zenon, <1>2 DEF Start, Goto, AddMutexFree, IndexEmpty, NoRow
<1>3. ASSUME NEW t \in Thread, LookupLabel(t) PROVE TypeOK'
  BY Zenon, <1>3 DEF LookupLabel, Goto, LabelTaken
<1>4. ASSUME NEW t \in Thread, Claim(t) PROVE TypeOK'
  <2>1. total_count \in InnerId /\ total_count + 1 \in 0 .. MaxIds
    BY <1>4 DEF Claim, InnerId
  <2>2. row' \in [Thread -> Row]
    BY Zenon, <1>4, <2>1, RowsTyped DEF Claim, ClaimId, UniqueId
  <2>3. vecs' \in [InnerId -> Vec \cup {None}] /\ pc' \in [Thread -> PCs]
    BY Zenon, <1>4, <2>1 DEF Claim, Goto, ClaimId, UniqueId
  <2> QED BY Zenon, <1>4, <2>1, <2>2, <2>3 DEF Claim, ClaimId
<1>5. ASSUME NEW t \in Thread, ClaimFails(t) PROVE TypeOK'
  BY Zenon, <1>5 DEF ClaimFails, Goto, AddMutexFree
<1>6. ASSUME NEW t \in Thread, ClaimAndGrow(t) PROVE TypeOK'
  BY Zenon, <1>6 DEF ClaimAndGrow, Goto, AddMutexFree
<1>7. ASSUME NEW t \in Thread, Grow(t) PROVE TypeOK'
  <2>1. total_count \in InnerId /\ total_count + 1 \in 0 .. MaxIds
    BY <1>7 DEF Grow, LockInv, InnerId
  <2>2. row' \in [Thread -> Row]
    BY Zenon, <1>7, <2>1, RowsTyped DEF Grow, ClaimId, UniqueId
  <2>3. RoundUp(total_count + 1) \in 0 .. MaxSlots /\ RoundUp(total_count + 1) \in Nat
    BY <2>1
  <2>4. max_capacity' \in 0 .. MaxSlots /\ capacity' \in Nat
    BY Zenon, <1>7, <2>3 DEF Grow, Grown
  <2>5. reallocs + 1 \in Nat
    OBVIOUS
  <2>6. reallocs' \in Nat
    BY Zenon, <1>7, <2>5 DEF Grow
  <2>7. vecs' \in [InnerId -> Vec \cup {None}] /\ pc' \in [Thread -> PCs]
    BY Zenon, <1>7, <2>1 DEF Grow, Goto, ClaimId, UniqueId
  <2>8. total_count' \in 0 .. MaxIds /\ add_owner' \in Thread \cup {None}
    BY Zenon, <1>7, <2>1 DEF Grow, ClaimId
  <2> QED BY Zenon, <1>7, <2>2, <2>4, <2>6, <2>7, <2>8 DEF Grow
<1>8. ASSUME NEW t \in Thread, InsertLabel(t) PROVE TypeOK'
  BY Zenon, <1>8 DEF InsertLabel, Goto, BeforeProbe
<1>9. ASSUME NEW t \in Thread, BeginWrite(t) PROVE TypeOK'
  BY SMTT(30), <1>9 DEF BeginWrite, Goto, WriteSharesAddMutex
<1>10. ASSUME NEW t \in Thread, EndWrite(t) PROVE TypeOK'
  BY Zenon, <1>10 DEF EndWrite, Goto
<1>11. ASSUME NEW t \in Thread, CheckStructure(t) PROVE TypeOK'
  BY Zenon, <1>11 DEF CheckStructure, Goto, AddMutexFree, AddMutexKept
<1>12. ASSUME NEW t \in Thread, CheckPending(t) PROVE TypeOK'
  BY Zenon, <1>12 DEF CheckPending, Goto
<1>13. ASSUME NEW t \in Thread, AwaitResize(t) PROVE TypeOK'
  BY Zenon, <1>13 DEF AwaitResize, Goto
<1>14. ASSUME NEW t \in Thread, ShareGlobal(t) PROVE TypeOK'
  BY Zenon, <1>14 DEF ShareGlobal, Goto
<1>15. ASSUME NEW t \in Thread, ProbeDuplicate(t) PROVE TypeOK'
  <2>1. PICK i \in InnerId : row' = [row EXCEPT ![t].group = i]
    BY Zenon, <1>15 DEF ProbeDuplicate, Duplicates
  <2>2. row' \in [Thread -> Row]
    BY Zenon, <2>1, RowsTyped
  <2> QED BY Zenon, <1>15, <2>2 DEF ProbeDuplicate, Goto
<1>16. ASSUME NEW t \in Thread, ProbeUnique(t) PROVE TypeOK'
  BY Zenon, <1>16 DEF ProbeUnique, Goto
<1>17. ASSUME NEW t \in Thread, BindDuplicate(t) PROVE TypeOK'
  BY Zenon, <1>17 DEF BindDuplicate, Goto
<1>18. ASSUME NEW t \in Thread, TrackDuplicate(t) PROVE TypeOK'
  BY Zenon, <1>18 DEF TrackDuplicate, Goto, GroupOf
<1>19. ASSUME NEW t \in Thread, AllocateSlot(t) PROVE TypeOK'
  <2>0. physical_count < max_capacity
    BY Zenon, <1>19 DEF AllocateSlot
  <2>1. physical_count \in Slot /\ physical_count + 1 \in 0 .. MaxSlots
    BY <2>0 DEF Slot
  <2>2. row' \in [Thread -> Row]
    BY Zenon, <1>19, <2>1, RowsTyped DEF AllocateSlot
  <2>3. pc' \in [Thread -> PCs]
    <3>1. Goto(t, "store") \/ Goto(t, "ensure")
      BY Zenon, <1>19 DEF AllocateSlot
    <3>2. "store" \in PCs /\ "ensure" \in PCs
      OBVIOUS
    <3> QED BY Zenon, <3>1, <3>2 DEF Goto
  <2>4. global_sharers' \subseteq Thread
    BY Zenon, <1>19 DEF AllocateSlot, GrowUnlocked
  <2> QED BY Zenon, <1>19, <2>1, <2>2, <2>3, <2>4 DEF AllocateSlot, NextSlotCount
<1>20. ASSUME NEW t \in Thread, EnsureDone(t) PROVE TypeOK'
  BY Zenon, <1>20 DEF EnsureDone, Goto
<1>21. ASSUME NEW t \in Thread, EnsurePending(t) PROVE TypeOK'
  BY Zenon, <1>21 DEF EnsurePending, Goto
<1>22. ASSUME NEW t \in Thread, EnsureGrow(t) PROVE TypeOK'
  <2>1. row[t].slot + 1 \in Nat
    BY <1>22 DEF Slot
  <2>2. CapacityFor(row[t].slot + 1) \in Nat
    BY Zenon, <2>1, RoundUpCovers DEF CapacityFor
  <2> QED BY Zenon, <1>22, <2>2 DEF EnsureGrow, Goto
<1>23. ASSUME NEW t \in Thread, Relock(t) PROVE TypeOK'
  BY Zenon, <1>23 DEF Relock, Goto
<1>24. ASSUME NEW t \in Thread, Store(t) PROVE TypeOK'
  BY Zenon, <1>24 DEF Store, Goto
<1>25. ASSUME NEW t \in Thread, PublishSlot(t) PROVE TypeOK'
  BY Zenon, <1>25 DEF PublishSlot, Goto
<1>26. ASSUME NEW t \in Thread, Link(t) PROVE TypeOK'
  BY Zenon, <1>26 DEF Link, Goto
<1>27. ASSUME NEW t \in Thread, PublishAlone(t) PROVE TypeOK'
  <2>1. CapacityFor(physical_count + 1) \in Nat
    BY RoundUpCovers DEF CapacityFor
  <2>2. Dedup => physical_count \in Slot /\ physical_count + 1 \in 0 .. MaxSlots
    BY <1>27 DEF PublishAlone, Slot
  <2>3. row'[t] = row[t] /\ row[t].level \in Int /\ height' \in Int
    BY <1>27 DEF PublishAlone
  <2>4. physical_count' \in 0 .. MaxSlots /\ capacity' \in Nat
    BY Zenon, <1>27, <2>1, <2>2 DEF PublishAlone, NextSlotCount
  <2>5. code' \in [Slot -> Vec \cup {None}] /\ slot' \in [InnerId -> Slot \cup {None}]
    <3>1. row[t].vec \in Vec \cup {None} /\ row[t].id \in InnerId
      OBVIOUS
    <3>2. CASE Dedup
      <4>1. /\ code' = [code EXCEPT ![physical_count] = row[t].vec]
            /\ slot' = [slot EXCEPT ![row[t].id] = physical_count]
        BY Zenon, <1>27, <3>2 DEF PublishAlone
      <4>2. code' \in [Slot -> Vec \cup {None}]
        BY Zenon, <3>1, <4>1
      <4>3. slot' \in [InnerId -> Slot \cup {None}]
        BY Zenon, <2>2, <3>1, <3>2, <4>1
      <4> QED BY Zenon, <4>2, <4>3
    <3>3. CASE ~Dedup
      BY Zenon, <1>27, <3>3 DEF PublishAlone
    <3> QED BY Zenon, <3>2, <3>3
  <2>6. bottom' \subseteq InnerId /\ add_owner' \in Thread \cup {None} /\ pc' \in [Thread -> PCs]
    BY Zenon, <1>27 DEF PublishAlone, Goto
  <2> QED BY Zenon, <1>27, <2>3, <2>4, <2>5, <2>6 DEF PublishAlone
<1> QED
  BY Zenon, <1>1, <1>2, <1>3, <1>4, <1>5, <1>6, <1>7, <1>8, <1>9, <1>10, <1>11, <1>12, <1>13, <1>14,
     <1>15, <1>16, <1>17, <1>18, <1>19, <1>20, <1>21, <1>22, <1>23, <1>24, <1>25, <1>26, <1>27
        DEF Next, Step

(* No lock is held in the beginning. *)
LEMMA LockInit == Init => LockInv
  BY RoundUpCovers, BoundsArePositive DEF Init, LockInv, Slotted, Sharing

(* Every step keeps the lock discipline: resize runs with add_mutex_ held, and a     *)
(* thread between probe and publication shares global_mutex_.                      *)
LEMMA LockStep ==
  ASSUME TypeOK, LockInv, [Next]_vars
  PROVE  LockInv'
<1>0. /\ pc \in [Thread -> PCs] /\ row \in [Thread -> Row]
      /\ total_count \in 0 .. MaxIds /\ max_capacity \in 0 .. MaxSlots
  BY Zenon DEF TypeOK, Row
<1> USE <1>0, SlotBounds, NoneIsNoValue DEF LockInv, Slotted, Sharing, locks
<1>1. CASE UNCHANGED vars
  BY Zenon, <1>1 DEF vars
<1>2. ASSUME NEW t \in Thread, NEW l \in Label, NEW v \in Vec, NEW level \in Levels,
            Start(t, l, v, level)
     PROVE  LockInv'
  BY Zenon, <1>2 DEF Start, Goto, AddMutexFree, IndexEmpty, NoRow
<1>3. ASSUME NEW t \in Thread, LookupLabel(t) PROVE LockInv'
  BY Zenon, <1>3 DEF LookupLabel, Goto, LabelTaken
<1>4. ASSUME NEW t \in Thread, Claim(t) PROVE LockInv'
  <2>1. total_count + 1 \in 0 .. MaxIds
    BY <1>4, BoundsArePositive DEF Claim
  <2> QED BY <1>4, <2>1 DEF Claim, Goto, ClaimId, UniqueId, AddMutexFree
<1>5. ASSUME NEW t \in Thread, ClaimFails(t) PROVE LockInv'
  BY Zenon, <1>5 DEF ClaimFails, Goto, AddMutexFree
<1>6. ASSUME NEW t \in Thread, ClaimAndGrow(t) PROVE LockInv'
  BY Zenon, <1>6 DEF ClaimAndGrow, Goto, AddMutexFree
<1>7. ASSUME NEW t \in Thread, Grow(t) PROVE LockInv'
  <2>1. total_count + 1 \in 0 .. MaxIds
    BY <1>7, BoundsArePositive DEF Grow
  <2> QED BY Zenon, <1>7, <2>1 DEF Grow, Goto, ClaimId, UniqueId, Grown
<1>8. ASSUME NEW t \in Thread, InsertLabel(t) PROVE LockInv'
  BY Zenon, <1>8 DEF InsertLabel, Goto, BeforeProbe
<1>9. ASSUME NEW t \in Thread, BeginWrite(t) PROVE LockInv'
  BY Zenon, <1>9 DEF BeginWrite, Goto, WriteSharesAddMutex, Row
<1>10. ASSUME NEW t \in Thread, EndWrite(t) PROVE LockInv'
  BY Zenon, <1>10 DEF EndWrite, Goto
<1>11. ASSUME NEW t \in Thread, CheckStructure(t) PROVE LockInv'
  BY Zenon, <1>11 DEF CheckStructure, Goto, AddMutexFree, AddMutexKept
<1>12. ASSUME NEW t \in Thread, CheckPending(t) PROVE LockInv'
  BY Zenon, <1>12 DEF CheckPending, Goto
<1>13. ASSUME NEW t \in Thread, AwaitResize(t) PROVE LockInv'
  BY Zenon, <1>13 DEF AwaitResize, Goto
<1>14. ASSUME NEW t \in Thread, ShareGlobal(t) PROVE LockInv'
  BY Zenon, <1>14 DEF ShareGlobal, Goto
<1>15. ASSUME NEW t \in Thread, ProbeDuplicate(t) PROVE LockInv'
  BY Zenon, <1>15 DEF ProbeDuplicate, Goto, Duplicates, Row
<1>16. ASSUME NEW t \in Thread, ProbeUnique(t) PROVE LockInv'
  BY ZenonT(40), <1>16 DEF ProbeUnique, Goto
<1>17. ASSUME NEW t \in Thread, BindDuplicate(t) PROVE LockInv'
  BY Zenon, <1>17 DEF BindDuplicate, Goto
<1>18. ASSUME NEW t \in Thread, TrackDuplicate(t) PROVE LockInv'
  BY Zenon, <1>18 DEF TrackDuplicate, Goto, GroupOf
<1>19. ASSUME NEW t \in Thread, AllocateSlot(t) PROVE LockInv'
  BY ZenonT(40), <1>19 DEF AllocateSlot, Goto, SlotFits, NextSlotCount, GrowUnlocked, Row
<1>20. ASSUME NEW t \in Thread, EnsureDone(t) PROVE LockInv'
  BY Zenon, <1>20 DEF EnsureDone, Goto
<1>21. ASSUME NEW t \in Thread, EnsurePending(t) PROVE LockInv'
  BY Zenon, <1>21 DEF EnsurePending, Goto
<1>22. ASSUME NEW t \in Thread, EnsureGrow(t) PROVE LockInv'
  BY Zenon, <1>22 DEF EnsureGrow, Goto, CapacityFor
<1>23. ASSUME NEW t \in Thread, Relock(t) PROVE LockInv'
  BY Zenon, <1>23 DEF Relock, Goto
<1>24. ASSUME NEW t \in Thread, Store(t) PROVE LockInv'
  BY Zenon, <1>24 DEF Store, Goto
<1>25. ASSUME NEW t \in Thread, PublishSlot(t) PROVE LockInv'
  BY Zenon, <1>25 DEF PublishSlot, Goto
<1>26. ASSUME NEW t \in Thread, Link(t) PROVE LockInv'
  BY Zenon, <1>26 DEF Link, Goto
<1>27. ASSUME NEW t \in Thread, PublishAlone(t) PROVE LockInv'
  BY Zenon, <1>27 DEF PublishAlone, Goto, CapacityFor, NextSlotCount
<1> QED
  BY Zenon, <1>1, <1>2, <1>3, <1>4, <1>5, <1>6, <1>7, <1>8, <1>9, <1>10, <1>11, <1>12, <1>13, <1>14,
     <1>15, <1>16, <1>17, <1>18, <1>19, <1>20, <1>21, <1>22, <1>23, <1>24, <1>25, <1>26, <1>27
        DEF Next, Step

(* No Add is past CheckStructure in the beginning. *)
LEMMA StructureInit == Init => StructureInv
  BY Zenon DEF Init, StructureInv, Probing, Placing, Slotted

(* Every step keeps what CheckStructure decided for the Adds past it. *)
LEMMA StructureStep ==
  ASSUME TypeOK, LockInv, StructureInv, [Next]_vars
  PROVE  StructureInv'
<1>0. /\ pc \in [Thread -> PCs] /\ row \in [Thread -> Row]
      /\ \A u \in Thread : row[u].level \in Int
      /\ height \in Int
  BY Zenon DEF TypeOK, Row
<1> USE <1>0, NoneIsNoValue, LevelsAreIntegers DEF StructureInv,
   unique_add_needs_structure_update, Probing, Placing, Slotted, locks, graph
<1>1. CASE UNCHANGED vars
  BY Zenon, <1>1 DEF vars
<1>2. ASSUME NEW t \in Thread, NEW l \in Label, NEW v \in Vec, NEW level \in Levels,
            Start(t, l, v, level)
     PROVE  StructureInv'
  BY Zenon, <1>2 DEF Start, Goto, AddMutexFree, IndexEmpty, NoRow
<1>3. ASSUME NEW t \in Thread, LookupLabel(t) PROVE StructureInv'
  BY Zenon, <1>3 DEF LookupLabel, Goto, LabelTaken
<1>4. ASSUME NEW t \in Thread, Claim(t) PROVE StructureInv'
  BY Zenon, <1>4 DEF Claim, Goto, ClaimId, UniqueId, AddMutexFree, Row
<1>5. ASSUME NEW t \in Thread, ClaimFails(t) PROVE StructureInv'
  BY Zenon, <1>5 DEF ClaimFails, Goto, AddMutexFree
<1>6. ASSUME NEW t \in Thread, ClaimAndGrow(t) PROVE StructureInv'
  BY Zenon, <1>6 DEF ClaimAndGrow, Goto, AddMutexFree
<1>7. ASSUME NEW t \in Thread, Grow(t) PROVE StructureInv'
  BY Zenon, <1>7 DEF Grow, Goto, ClaimId, LockInv
<1>8. ASSUME NEW t \in Thread, InsertLabel(t) PROVE StructureInv'
  BY Zenon, <1>8 DEF InsertLabel, Goto, BeforeProbe
<1>9. ASSUME NEW t \in Thread, BeginWrite(t) PROVE StructureInv'
  BY Zenon, <1>9 DEF BeginWrite, Goto, WriteSharesAddMutex, Row
<1>10. ASSUME NEW t \in Thread, EndWrite(t) PROVE StructureInv'
  BY Zenon, <1>10 DEF EndWrite, Goto
<1>11. ASSUME NEW t \in Thread, CheckStructure(t) PROVE StructureInv'
  BY Zenon, <1>11 DEF CheckStructure, Goto, AddMutexFree, AddMutexKept
<1>12. ASSUME NEW t \in Thread, CheckPending(t) PROVE StructureInv'
  BY Zenon, <1>12 DEF CheckPending, Goto
<1>13. ASSUME NEW t \in Thread, AwaitResize(t) PROVE StructureInv'
  BY Zenon, <1>13 DEF AwaitResize, Goto
<1>14. ASSUME NEW t \in Thread, ShareGlobal(t) PROVE StructureInv'
  BY Zenon, <1>14 DEF ShareGlobal, Goto
<1>15. ASSUME NEW t \in Thread, ProbeDuplicate(t) PROVE StructureInv'
  BY Zenon, <1>15 DEF ProbeDuplicate, Goto, Duplicates, Row
<1>16. ASSUME NEW t \in Thread, ProbeUnique(t) PROVE StructureInv'
  BY Zenon, <1>16 DEF ProbeUnique, Goto
<1>17. ASSUME NEW t \in Thread, BindDuplicate(t) PROVE StructureInv'
  BY Zenon, <1>17 DEF BindDuplicate, Goto
<1>18. ASSUME NEW t \in Thread, TrackDuplicate(t) PROVE StructureInv'
  BY Zenon, <1>18 DEF TrackDuplicate, Goto, GroupOf
<1>19. ASSUME NEW t \in Thread, AllocateSlot(t) PROVE StructureInv'
  BY Zenon, <1>19 DEF AllocateSlot, Goto, SlotFits, NextSlotCount, GrowUnlocked, Row
<1>20. ASSUME NEW t \in Thread, EnsureDone(t) PROVE StructureInv'
  BY Zenon, <1>20 DEF EnsureDone, Goto
<1>21. ASSUME NEW t \in Thread, EnsurePending(t) PROVE StructureInv'
  BY Zenon, <1>21 DEF EnsurePending, Goto
<1>22. ASSUME NEW t \in Thread, EnsureGrow(t) PROVE StructureInv'
  BY Zenon, <1>22 DEF EnsureGrow, Goto, CapacityFor
<1>23. ASSUME NEW t \in Thread, Relock(t) PROVE StructureInv'
  BY Zenon, <1>23 DEF Relock, Goto
<1>24. ASSUME NEW t \in Thread, Store(t) PROVE StructureInv'
  BY Zenon, <1>24 DEF Store, Goto
<1>25. ASSUME NEW t \in Thread, PublishSlot(t) PROVE StructureInv'
  BY Zenon, <1>25 DEF PublishSlot, Goto
<1>26. ASSUME NEW t \in Thread, Link(t) PROVE StructureInv'
  BY Zenon, <1>26 DEF Link, Goto
<1>27. ASSUME NEW t \in Thread, PublishAlone(t) PROVE StructureInv'
  BY <1>27 DEF PublishAlone, Goto, CapacityFor, NextSlotCount
<1> QED
  BY Zenon, <1>1, <1>2, <1>3, <1>4, <1>5, <1>6, <1>7, <1>8, <1>9, <1>10, <1>11, <1>12, <1>13, <1>14,
     <1>15, <1>16, <1>17, <1>18, <1>19, <1>20, <1>21, <1>22, <1>23, <1>24, <1>25, <1>26, <1>27
        DEF Next, Step

(* No id is claimed in the beginning. *)
LEMMA IdInit == Init => IdInv
  BY Zenon DEF Init, IdInv, VecsKnown, IdsOwned, IdsDistinct, IdsFresh, Unclaimed

(* Every step keeps the ids of the Adds under way apart and unpublished. *)
LEMMA IdStep ==
  ASSUME TypeOK, LockInv, IdInv, [Next]_vars
  PROVE  IdInv'
<1>0. /\ pc \in [Thread -> PCs] /\ row \in [Thread -> Row]
      /\ slot \in [InnerId -> Slot \cup {None}] /\ vecs \in [InnerId -> Vec \cup {None}]
      /\ bottom \subseteq InnerId /\ total_count \in 0 .. MaxIds
      /\ \A u \in Thread : row[u].id \in InnerId /\ row[u].slot \in Slot /\ row[u].group \in
         InnerId
  BY Zenon DEF TypeOK, Row
<1> USE <1>0 DEF IdInv, VecsKnown, IdsOwned, IdsDistinct, IdsFresh, Unclaimed, storage, graph
<1>1. CASE UNCHANGED vars
  BY Zenon, <1>1 DEF vars
<1>2. ASSUME NEW t \in Thread, NEW l \in Label, NEW v \in Vec, NEW level \in Levels,
            Start(t, l, v, level)
     PROVE  IdInv'
  BY Zenon, <1>2 DEF Start, Goto, AddMutexFree, IndexEmpty, NoRow
<1>3. ASSUME NEW t \in Thread, LookupLabel(t) PROVE IdInv'
  BY Zenon, <1>3 DEF LookupLabel, Goto, LabelTaken
<1>4. ASSUME NEW t \in Thread, Claim(t) PROVE IdInv'
  <2>1. total_count \in InnerId
    BY <1>4, BoundsArePositive DEF Claim, InnerId
  <2>2. VecsKnown'
    BY <1>4 DEF Claim, Goto, ClaimId
  <2>3. IdsFresh'
    BY <1>4, <2>1 DEF Claim, ClaimId, InnerId
  <2>4. \A u \in Thread : pc[u] \notin Unclaimed => u # t /\ row[u].id # total_count
    BY <1>4, <2>1 DEF Claim
  <2>5. \A u \in Thread \ {t} : row'[u] = row[u] /\ pc'[u] = pc[u]
    BY Zenon, <1>4 DEF Claim, Goto, ClaimId
  <2>6. row'[t].id = total_count /\ row'[t].vec = row[t].vec /\ vecs'[total_count] = row[t].vec
    BY <1>4, <2>1 DEF Claim, ClaimId, UniqueId
  <2>7. IdsDistinct'
    BY <2>4, <2>5, <2>6
  <2>8. total_count \notin bottom /\ bottom' = bottom /\ total_count' = total_count + 1
    BY <1>4, <2>1 DEF Claim, ClaimId
  <2>9. \A i \in InnerId : i # total_count => vecs'[i] = vecs[i]
    BY Zenon, <1>4, <2>1 DEF Claim, ClaimId, UniqueId
  <2>10. IdsOwned'
    <3> SUFFICES ASSUME NEW u \in Thread, pc'[u] \notin Unclaimed
                 PROVE  row'[u].id < total_count' /\ row'[u].vec = vecs'[row'[u].id]
                        /\ row'[u].id \notin bottom'
      OBVIOUS
    <3>1. CASE u = t
      BY <3>1, <2>1, <2>6, <2>8 DEF InnerId
    <3>2. CASE u # t
      <4>1. row'[u] = row[u] /\ row[u].id < total_count /\ row[u].vec = vecs[row[u].id]
            /\ row[u].id \notin bottom /\ row[u].id \in InnerId
        BY Zenon, <3>2, <2>5
      <4> HIDE DEF IdInv, IdsOwned, IdsDistinct, IdsFresh
      <4>4. row[u].id \in Int /\ total_count \in Int
        BY <4>1, <2>1 DEF InnerId
      <4>2. row[u].id # total_count /\ row[u].id < total_count + 1
        BY <4>1, <4>4
      <4>3. vecs'[row[u].id] = vecs[row[u].id]
        BY Zenon, <4>1, <4>2, <2>9
      <4> QED BY Zenon, <4>1, <4>2, <4>3, <2>8
    <3> QED BY Zenon, <3>1, <3>2
  <2> QED BY Zenon, <2>2, <2>3, <2>7, <2>10
<1>5. ASSUME NEW t \in Thread, ClaimFails(t) PROVE IdInv'
  BY Zenon, <1>5 DEF ClaimFails, Goto, AddMutexFree
<1>6. ASSUME NEW t \in Thread, ClaimAndGrow(t) PROVE IdInv'
  BY Zenon, <1>6 DEF ClaimAndGrow, Goto, AddMutexFree
<1>7. ASSUME NEW t \in Thread, Grow(t) PROVE IdInv'
  <2>1. total_count \in InnerId
    BY <1>7, BoundsArePositive DEF Grow, LockInv, InnerId
  <2>2. VecsKnown'
    BY <1>7 DEF Grow, Goto, ClaimId
  <2>3. IdsFresh'
    BY <1>7, <2>1 DEF Grow, ClaimId, InnerId
  <2>4. \A u \in Thread : pc[u] \notin Unclaimed => u # t /\ row[u].id # total_count
    BY <1>7, <2>1 DEF Grow
  <2>5. \A u \in Thread \ {t} : row'[u] = row[u] /\ pc'[u] = pc[u]
    BY Zenon, <1>7 DEF Grow, Goto, ClaimId
  <2>6. row'[t].id = total_count /\ row'[t].vec = row[t].vec /\ vecs'[total_count] = row[t].vec
    BY <1>7, <2>1 DEF Grow, ClaimId, UniqueId
  <2>7. IdsDistinct'
    BY <2>4, <2>5, <2>6
  <2>8. total_count \notin bottom /\ bottom' = bottom /\ total_count' = total_count + 1
    BY <1>7, <2>1 DEF Grow, ClaimId
  <2>9. \A i \in InnerId : i # total_count => vecs'[i] = vecs[i]
    BY Zenon, <1>7, <2>1 DEF Grow, ClaimId, UniqueId
  <2>10. IdsOwned'
    <3> SUFFICES ASSUME NEW u \in Thread, pc'[u] \notin Unclaimed
                 PROVE  row'[u].id < total_count' /\ row'[u].vec = vecs'[row'[u].id]
                        /\ row'[u].id \notin bottom'
      OBVIOUS
    <3>1. CASE u = t
      BY <3>1, <2>1, <2>6, <2>8 DEF InnerId
    <3>2. CASE u # t
      <4>1. row'[u] = row[u] /\ row[u].id < total_count /\ row[u].vec = vecs[row[u].id]
            /\ row[u].id \notin bottom /\ row[u].id \in InnerId
        BY Zenon, <3>2, <2>5
      <4> HIDE DEF IdInv, IdsOwned, IdsDistinct, IdsFresh
      <4>4. row[u].id \in Int /\ total_count \in Int
        BY <4>1, <2>1 DEF InnerId
      <4>2. row[u].id # total_count /\ row[u].id < total_count + 1
        BY <4>1, <4>4
      <4>3. vecs'[row[u].id] = vecs[row[u].id]
        BY Zenon, <4>1, <4>2, <2>9
      <4> QED BY Zenon, <4>1, <4>2, <4>3, <2>8
    <3> QED BY Zenon, <3>1, <3>2
  <2> QED BY Zenon, <2>2, <2>3, <2>7, <2>10
<1>8. ASSUME NEW t \in Thread, InsertLabel(t) PROVE IdInv'
  BY Zenon, <1>8 DEF InsertLabel, Goto, BeforeProbe
<1>9. ASSUME NEW t \in Thread, BeginWrite(t) PROVE IdInv'
  BY <1>9 DEF BeginWrite, Goto, WriteSharesAddMutex, Row
<1>10. ASSUME NEW t \in Thread, EndWrite(t) PROVE IdInv'
  BY Zenon, <1>10 DEF EndWrite, Goto
<1>11. ASSUME NEW t \in Thread, CheckStructure(t) PROVE IdInv'
  BY Zenon, <1>11 DEF CheckStructure, Goto, AddMutexFree, AddMutexKept
<1>12. ASSUME NEW t \in Thread, CheckPending(t) PROVE IdInv'
  BY Zenon, <1>12 DEF CheckPending, Goto
<1>13. ASSUME NEW t \in Thread, AwaitResize(t) PROVE IdInv'
  BY Zenon, <1>13 DEF AwaitResize, Goto
<1>14. ASSUME NEW t \in Thread, ShareGlobal(t) PROVE IdInv'
  BY Zenon, <1>14 DEF ShareGlobal, Goto
<1>15. ASSUME NEW t \in Thread, ProbeDuplicate(t) PROVE IdInv'
  <2>1. PICK i \in InnerId : row' = [row EXCEPT ![t].group = i]
    BY Zenon, <1>15 DEF ProbeDuplicate, Duplicates
  <2>2. \A u \in Thread : row'[u].id = row[u].id /\ row'[u].vec = row[u].vec
    BY <2>1 DEF Row
  <2>3. \A u \in Thread : pc'[u] = pc[u] \/ (u = t /\ pc[u] = "probe")
    BY Zenon, <1>15 DEF ProbeDuplicate, Goto
  <2>4. pc[t] = "probe" /\ UNCHANGED <<total_count, vecs, bottom, slot>>
    BY Zenon, <1>15 DEF ProbeDuplicate, graph, storage
  <2>5. \A u \in Thread : /\ pc'[u] # "idle" => pc[u] # "idle"
                          /\ pc'[u] \notin Unclaimed => pc[u] \notin Unclaimed
    BY Zenon, <2>3, <2>4 DEF Unclaimed
  <2>6. VecsKnown' /\ IdsFresh'
    BY Zenon, <2>2, <2>4, <2>5
  <2>7. IdsOwned'
    BY Zenon, <2>2, <2>4, <2>5
  <2>8. IdsDistinct'
    <3>1. SUFFICES ASSUME NEW u \in Thread, NEW w \in Thread, u # w,
                          pc'[u] \notin Unclaimed, pc'[w] \notin Unclaimed
                   PROVE  row'[u].id # row'[w].id
      BY Zenon DEF IdsDistinct
    <3>2. row[u].id # row[w].id
      BY Zenon, <2>5, <3>1 DEF IdInv, IdsDistinct
    <3> QED BY Zenon, <2>2, <3>2
  <2> QED BY Zenon, <2>6, <2>7, <2>8
<1>16. ASSUME NEW t \in Thread, ProbeUnique(t) PROVE IdInv'
  BY ZenonT(40), <1>16 DEF ProbeUnique, Goto
<1>17. ASSUME NEW t \in Thread, BindDuplicate(t) PROVE IdInv'
  <2>1. row[t].id \in InnerId /\ row[t].id < total_count
    BY Zenon, <1>17 DEF BindDuplicate
  <2>2. VecsKnown' /\ IdsOwned' /\ IdsDistinct'
    BY Zenon, <1>17, <2>1 DEF BindDuplicate, Goto
  <2>3. IdsFresh'
    BY <1>17, <2>1 DEF BindDuplicate, InnerId
  <2> QED BY Zenon, <2>2, <2>3
<1>18. ASSUME NEW t \in Thread, TrackDuplicate(t) PROVE IdInv'
  BY Zenon, <1>18 DEF TrackDuplicate, Goto, GroupOf
<1>19. ASSUME NEW t \in Thread, AllocateSlot(t) PROVE IdInv'
  BY <1>19 DEF AllocateSlot, Goto, SlotFits, NextSlotCount, GrowUnlocked, Row
<1>20. ASSUME NEW t \in Thread, EnsureDone(t) PROVE IdInv'
  BY Zenon, <1>20 DEF EnsureDone, Goto
<1>21. ASSUME NEW t \in Thread, EnsurePending(t) PROVE IdInv'
  BY Zenon, <1>21 DEF EnsurePending, Goto
<1>22. ASSUME NEW t \in Thread, EnsureGrow(t) PROVE IdInv'
  BY Zenon, <1>22 DEF EnsureGrow, Goto, CapacityFor
<1>23. ASSUME NEW t \in Thread, Relock(t) PROVE IdInv'
  BY Zenon, <1>23 DEF Relock, Goto
<1>24. ASSUME NEW t \in Thread, Store(t) PROVE IdInv'
  BY Zenon, <1>24 DEF Store, Goto
<1>25. ASSUME NEW t \in Thread, PublishSlot(t) PROVE IdInv'
  <2>1. row[t].id \in InnerId /\ row[t].id < total_count
    BY Zenon, <1>25 DEF PublishSlot
  <2>2. VecsKnown' /\ IdsOwned' /\ IdsDistinct'
    BY Zenon, <1>25, <2>1 DEF PublishSlot, Goto
  <2>3. IdsFresh'
    BY <1>25, <2>1 DEF PublishSlot, InnerId
  <2> QED BY Zenon, <2>2, <2>3
<1>26. ASSUME NEW t \in Thread, Link(t) PROVE IdInv'
  <2>1. row[t].id \in InnerId /\ row[t].id < total_count
    BY Zenon, <1>26 DEF Link
  <2>2. VecsKnown' /\ IdsOwned' /\ IdsDistinct'
    BY Zenon, <1>26, <2>1 DEF Link, Goto
  <2>3. IdsFresh'
    BY <1>26, <2>1 DEF Link, InnerId
  <2> QED BY Zenon, <2>2, <2>3
<1>27. ASSUME NEW t \in Thread, PublishAlone(t) PROVE IdInv'
  <2>1. row[t].id \in InnerId /\ row[t].id < total_count
    BY Zenon, <1>27 DEF PublishAlone
  <2>2. VecsKnown' /\ IdsOwned' /\ IdsDistinct'
    BY Zenon, <1>27, <2>1 DEF PublishAlone, Goto
  <2>3. \A i \in InnerId \ {row[t].id} : slot'[i] = slot[i]
    BY Zenon, <1>27 DEF PublishAlone
  <2>4. bottom' = bottom \cup {row[t].id} /\ total_count' = total_count
    BY Zenon, <1>27 DEF PublishAlone
  <2>5. IdsFresh'
    BY <2>1, <2>3, <2>4 DEF InnerId
  <2> QED BY Zenon, <2>2, <2>5
<1> QED
  BY Zenon, <1>1, <1>2, <1>3, <1>4, <1>5, <1>6, <1>7, <1>8, <1>9, <1>10, <1>11, <1>12, <1>13, <1>14,
     <1>15, <1>16, <1>17, <1>18, <1>19, <1>20, <1>21, <1>22, <1>23, <1>24, <1>25, <1>26, <1>27
        DEF Next, Step

(* No slot is bound or carried in the beginning. *)
LEMMA SlotInit == Init => SlotInv
  BY RoundUpCovers, BoundsArePositive
  DEF Init, SlotInv, SlotsBelow, BoundWhenVisible, SlotsCarried, SlotsDistinct, Unclaimed,
      Slotted

(* The slot AllocateSlot returns next is neither bound nor carried. *)
LEMMA SlotsBelowCount ==
  ASSUME Dedup, TypeOK, SlotInv
  PROVE  /\ \A i \in InnerId : slot[i] # physical_count
         /\ \A u \in Thread : pc[u] \in Slotted => row[u].slot # physical_count
<1>1. physical_count \in Int /\ physical_count # None
  BY NoneIsNoValue DEF TypeOK
<1>2. ASSUME NEW i \in InnerId, slot[i] # None PROVE slot[i] # physical_count
  <2>1. slot[i] < physical_count
    BY Zenon, <1>2 DEF SlotInv, SlotsBelow
  <2>2. slot[i] \in Int
    BY <1>2 DEF TypeOK, Slot
  <2> QED BY <1>1, <2>1, <2>2
<1>3. ASSUME NEW u \in Thread, pc[u] \in Slotted PROVE row[u].slot # physical_count
  <2>1. row[u].slot < physical_count
    BY Zenon, <1>3 DEF SlotInv, SlotsCarried
  <2>2. row[u].slot \in Int
    BY DEF TypeOK, Row, Slot
  <2> QED BY <1>1, <2>1, <2>2
<1> QED BY Zenon, <1>1, <1>2, <1>3

(* Every step keeps the slots of CodeSlotMap apart: bound, carried or not allocated. *)
LEMMA SlotStep ==
  ASSUME Dedup, TypeOK, LockInv, IdInv, SlotInv, [Next]_vars
  PROVE  SlotInv'
<1>0. /\ pc \in [Thread -> PCs] /\ row \in [Thread -> Row]
      /\ slot \in [InnerId -> Slot \cup {None}] /\ bottom \subseteq InnerId
      /\ physical_count \in 0 .. MaxSlots /\ max_capacity \in 0 .. MaxSlots /\ capacity \in Nat
      /\ total_count \in 0 .. MaxIds
      /\ \A u \in Thread : row[u].id \in InnerId /\ row[u].slot \in Slot /\ row[u].group \in
         InnerId
  BY Zenon DEF TypeOK, Row
<1> USE <1>0, NoneIsNoValue DEF SlotInv, SlotsBelow, BoundWhenVisible, SlotsCarried,
   SlotsDistinct, Unclaimed, Slotted, storage, graph
<1>1. CASE UNCHANGED vars
  BY Zenon, <1>1 DEF vars
<1>2. ASSUME NEW t \in Thread, NEW l \in Label, NEW v \in Vec, NEW level \in Levels,
            Start(t, l, v, level)
     PROVE  SlotInv'
  BY Zenon, <1>2 DEF Start, Goto, AddMutexFree, IndexEmpty, NoRow
<1>3. ASSUME NEW t \in Thread, LookupLabel(t) PROVE SlotInv'
  BY Zenon, <1>3 DEF LookupLabel, Goto, LabelTaken
<1>4. ASSUME NEW t \in Thread, Claim(t) PROVE SlotInv'
  <2>1. total_count \in InnerId /\ slot[total_count] = None
    BY <1>4, BoundsArePositive DEF Claim, LockInv, IdInv, IdsFresh, InnerId
  <2>2. SlotsBelow'
    BY Zenon, <1>4 DEF Claim
  <2>3. BoundWhenVisible'
    BY <1>4, <2>1 DEF Claim, ClaimId, UniqueId, Goto
  <2>4. SlotsCarried' /\ SlotsDistinct'
    BY Zenon, <1>4 DEF Claim, ClaimId, UniqueId, Goto
  <2> QED BY Zenon, <2>2, <2>3, <2>4
<1>5. ASSUME NEW t \in Thread, ClaimFails(t) PROVE SlotInv'
  BY Zenon, <1>5 DEF ClaimFails, Goto, AddMutexFree
<1>6. ASSUME NEW t \in Thread, ClaimAndGrow(t) PROVE SlotInv'
  BY Zenon, <1>6 DEF ClaimAndGrow, Goto, AddMutexFree
<1>7. ASSUME NEW t \in Thread, Grow(t) PROVE SlotInv'
  <2>1. total_count \in InnerId /\ slot[total_count] = None
    BY <1>7, BoundsArePositive DEF Grow, LockInv, IdInv, IdsFresh, InnerId
  <2>2. SlotsBelow'
    <3>1. total_count + 1 \in 0 .. MaxIds /\ max_capacity < RoundUp(total_count + 1)
      BY <1>7, BoundsArePositive DEF Grow, LockInv
    <3>2. RoundUp(total_count + 1) \in Nat
      BY <3>1, SlotBounds
    <3>3. max_capacity' \in Nat /\ max_capacity' >= max_capacity
      BY <1>7, <3>1, <3>2 DEF Grow, Grown
    <3> QED BY <1>7, <3>3 DEF Grow
  <2>3. BoundWhenVisible'
    BY <1>7, <2>1 DEF Grow, ClaimId, UniqueId, Goto
  <2>4. SlotsCarried' /\ SlotsDistinct'
    BY Zenon, <1>7 DEF Grow, ClaimId, UniqueId, Goto
  <2> QED BY Zenon, <2>2, <2>3, <2>4
<1>8. ASSUME NEW t \in Thread, InsertLabel(t) PROVE SlotInv'
  BY Zenon, <1>8 DEF InsertLabel, Goto, BeforeProbe
<1>9. ASSUME NEW t \in Thread, BeginWrite(t) PROVE SlotInv'
  BY <1>9 DEF BeginWrite, Goto, WriteSharesAddMutex, Row
<1>10. ASSUME NEW t \in Thread, EndWrite(t) PROVE SlotInv'
  BY Zenon, <1>10 DEF EndWrite, Goto
<1>11. ASSUME NEW t \in Thread, CheckStructure(t) PROVE SlotInv'
  BY Zenon, <1>11 DEF CheckStructure, Goto, AddMutexFree, AddMutexKept
<1>12. ASSUME NEW t \in Thread, CheckPending(t) PROVE SlotInv'
  BY Zenon, <1>12 DEF CheckPending, Goto
<1>13. ASSUME NEW t \in Thread, AwaitResize(t) PROVE SlotInv'
  BY Zenon, <1>13 DEF AwaitResize, Goto
<1>14. ASSUME NEW t \in Thread, ShareGlobal(t) PROVE SlotInv'
  BY Zenon, <1>14 DEF ShareGlobal, Goto
<1>15. ASSUME NEW t \in Thread, ProbeDuplicate(t) PROVE SlotInv'
  BY <1>15 DEF ProbeDuplicate, Goto, Duplicates, Row
<1>16. ASSUME NEW t \in Thread, ProbeUnique(t) PROVE SlotInv'
  BY <1>16 DEF ProbeUnique, Goto
<1>17. ASSUME NEW t \in Thread, BindDuplicate(t) PROVE SlotInv'
  <2>1. row[t].group \in InnerId /\ slot[row[t].group] # None
    BY Zenon, <1>17 DEF BindDuplicate
  <2>2. slot' = [slot EXCEPT ![row[t].id] = slot[row[t].group]]
    BY Zenon, <1>17 DEF BindDuplicate
  <2>3. SlotsBelow' /\ SlotsCarried' /\ SlotsDistinct'
    BY <1>17, <2>1, <2>2 DEF BindDuplicate, Goto
  <2>4. BoundWhenVisible'
    BY <1>17, <2>1, <2>2 DEF BindDuplicate, Goto, IdInv, IdsDistinct, IdsOwned
  <2> QED BY Zenon, <2>3, <2>4
<1>18. ASSUME NEW t \in Thread, TrackDuplicate(t) PROVE SlotInv'
  BY Zenon, <1>18 DEF TrackDuplicate, Goto, GroupOf
<1>19. ASSUME NEW t \in Thread, AllocateSlot(t) PROVE SlotInv'
  <2>1. physical_count \in Nat /\ physical_count + 1 <= max_capacity
    BY <1>19 DEF AllocateSlot
  <2>2. SlotsBelow'
    BY <1>19, <2>1 DEF AllocateSlot, NextSlotCount, Slot
  <2>3. BoundWhenVisible'
    BY <1>19 DEF AllocateSlot, Goto
  <2>4. \A i \in InnerId : slot[i] # physical_count
    BY Zenon, SlotsBelowCount
  <2>5. \A u \in Thread : pc[u] \in Slotted => u # t /\ row[u].slot # physical_count
    BY Zenon, <1>19, SlotsBelowCount DEF AllocateSlot
  <2>6. row' = [row EXCEPT ![t].slot = physical_count] /\ physical_count' = physical_count + 1
        /\ capacity' = capacity /\ slot' = slot
    BY Zenon, <1>19 DEF AllocateSlot, NextSlotCount
  <2>7. \/ pc' = [pc EXCEPT ![t] = "ensure"]
        \/ pc' = [pc EXCEPT ![t] = "store"] /\ physical_count < capacity
    BY <1>19, <2>1 DEF AllocateSlot, SlotFits, Goto
  <2>8. SlotsDistinct'
    BY <2>5, <2>6, <2>7
  <2>9. SlotsCarried'
    <3>1. row'[t].slot = physical_count /\ \A u \in Thread \ {t} : row'[u] = row[u]
      BY <2>6
    <3>2. \A u \in Thread : row[u].slot \in Nat
      BY DEF Slot
    <3>3. \A u \in Thread : row[u].slot < physical_count => row[u].slot < physical_count'
      BY <2>1, <2>6, <3>2
    <3>4. physical_count < physical_count'
      BY <2>1, <2>6
    <3> QED BY <2>4, <2>6, <2>7, <3>1, <3>3, <3>4
  <2> QED BY Zenon, <2>2, <2>3, <2>8, <2>9
<1>20. ASSUME NEW t \in Thread, EnsureDone(t) PROVE SlotInv'
  <2>1. row[t].slot < capacity
    BY <1>20 DEF EnsureDone, Slot
  <2> QED BY <1>20, <2>1 DEF EnsureDone, Goto
<1>21. ASSUME NEW t \in Thread, EnsurePending(t) PROVE SlotInv'
  BY <1>21 DEF EnsurePending, Goto
<1>22. ASSUME NEW t \in Thread, EnsureGrow(t) PROVE SlotInv'
  <2>1. row[t].slot \in Nat /\ row[t].slot + 1 \in Nat
    BY DEF Slot
  <2>2. RoundUp(row[t].slot + 1) \in Nat /\ RoundUp(row[t].slot + 1) >= row[t].slot + 1
    BY Zenon, <2>1, RoundUpCovers
  <2>3. capacity' \in Nat /\ capacity' >= capacity /\ row[t].slot < capacity'
    BY <1>22, <2>1, <2>2 DEF EnsureGrow, CapacityFor
  <2>4. SlotsBelow'
    BY <1>22, <2>3 DEF EnsureGrow, Slot
  <2>5. BoundWhenVisible' /\ SlotsDistinct'
    BY <1>22 DEF EnsureGrow, Goto
  <2>6. SlotsCarried'
    <3>1. row' = row /\ slot' = slot /\ physical_count' = physical_count
          /\ pc' = [pc EXCEPT ![t] = "relock"] /\ pc[t] \in Slotted
      BY Zenon, <1>22 DEF EnsureGrow, Goto
    <3>2. \A u \in Thread : row[u].slot \in Nat
      BY DEF Slot
    <3>3. \A u \in Thread : row[u].slot < capacity => row[u].slot < capacity'
      BY SMTT(30), <2>3, <3>2
    <3> QED BY Zenon, <2>3, <3>1, <3>3
  <2> QED BY Zenon, <2>4, <2>5, <2>6
<1>23. ASSUME NEW t \in Thread, Relock(t) PROVE SlotInv'
  BY SMTT(30), <1>23 DEF Relock, Goto
<1>24. ASSUME NEW t \in Thread, Store(t) PROVE SlotInv'
  BY <1>24 DEF Store, Goto
<1>25. ASSUME NEW t \in Thread, PublishSlot(t) PROVE SlotInv'
  <2>1. row[t].slot \in Slot /\ row[t].slot < physical_count /\ row[t].slot < capacity
        /\ row[t].slot # None
    BY Zenon, <1>25 DEF PublishSlot, Slot
  <2>2. slot' = [slot EXCEPT ![row[t].id] = row[t].slot]
    BY Zenon, <1>25 DEF PublishSlot
  <2>3. SlotsBelow' /\ SlotsDistinct'
    BY Zenon, <1>25, <2>1, <2>2 DEF PublishSlot, Goto
  <2>4. SlotsCarried'
    BY SMTT(30), <1>25, <2>1, <2>2 DEF PublishSlot, Goto
  <2>5. BoundWhenVisible'
    BY <1>25, <2>1, <2>2 DEF PublishSlot, Goto, IdInv, IdsDistinct, IdsOwned
  <2> QED BY Zenon, <2>3, <2>4, <2>5
<1>26. ASSUME NEW t \in Thread, Link(t) PROVE SlotInv'
  BY Zenon, <1>26 DEF Link, Goto
<1>27. ASSUME NEW t \in Thread, PublishAlone(t) PROVE SlotInv'
  <2>9. physical_count < max_capacity
    BY Zenon, <1>27 DEF PublishAlone
  <2>1. physical_count \in Nat /\ physical_count + 1 <= max_capacity /\ physical_count # None
    BY <2>9
  <2>2. RoundUp(physical_count + 1) \in Nat /\ RoundUp(physical_count + 1) >= physical_count + 1
    BY SMTT(30), <2>1, RoundUpCovers
  <2>3. capacity' \in Nat /\ capacity' >= capacity /\ physical_count < capacity'
    BY <1>27, <2>1, <2>2 DEF PublishAlone, CapacityFor
  <2>4. slot' = [slot EXCEPT ![row[t].id] = physical_count]
        /\ physical_count' = physical_count + 1 /\ row' = row /\ max_capacity' = max_capacity
        /\ pc' = [pc EXCEPT ![t] = "idle"] /\ bottom' = bottom \cup {row[t].id}
    BY Zenon, <1>27 DEF PublishAlone, NextSlotCount, Goto
  <2>5. SlotsBelow'
    BY <2>1, <2>3, <2>4 DEF Slot
  <2>6. SlotsDistinct'
    BY Zenon, <2>4
  <2>7. SlotsCarried'
    BY SMTT(30), <2>1, <2>3, <2>4 DEF Slot
  <2>8. BoundWhenVisible'
    BY <1>27, <2>1, <2>4 DEF PublishAlone, IdInv, IdsDistinct, IdsOwned
  <2> QED BY Zenon, <2>5, <2>6, <2>7, <2>8
<1> QED
  BY Zenon, <1>1, <1>2, <1>3, <1>4, <1>5, <1>6, <1>7, <1>8, <1>9, <1>10, <1>11, <1>12, <1>13, <1>14,
     <1>15, <1>16, <1>17, <1>18, <1>19, <1>20, <1>21, <1>22, <1>23, <1>24, <1>25, <1>26, <1>27
        DEF Next, Step

(* No slot is bound in the beginning. *)
LEMMA CodeInit == Init => CodeInv
  BY Zenon DEF Init, CodeInv

(* Every step keeps the bound slots written; Store comes before PublishSlot. *)
LEMMA CodeStep ==
  ASSUME Dedup, TypeOK, LockInv, IdInv, SlotInv, CodeInv, [Next]_vars
  PROVE  CodeInv'
<1>0. /\ pc \in [Thread -> PCs] /\ row \in [Thread -> Row]
      /\ slot \in [InnerId -> Slot \cup {None}] /\ code \in [Slot -> Vec \cup {None}]
      /\ bottom \subseteq InnerId
      /\ physical_count \in 0 .. MaxSlots /\ max_capacity \in 0 .. MaxSlots
      /\ \A u \in Thread : row[u].id \in InnerId /\ row[u].slot \in Slot /\ row[u].group \in
         InnerId
  BY Zenon DEF TypeOK, Row
<1> USE <1>0, NoneIsNoValue DEF CodeInv, storage
<1>1. CASE UNCHANGED vars
  BY Zenon, <1>1 DEF vars
<1>2. ASSUME NEW t \in Thread, NEW l \in Label, NEW v \in Vec, NEW level \in Levels,
            Start(t, l, v, level)
     PROVE  CodeInv'
  BY Zenon, <1>2 DEF Start, Goto, AddMutexFree, IndexEmpty, NoRow
<1>3. ASSUME NEW t \in Thread, LookupLabel(t) PROVE CodeInv'
  BY Zenon, <1>3 DEF LookupLabel, Goto, LabelTaken
<1>4. ASSUME NEW t \in Thread, Claim(t) PROVE CodeInv'
  BY Zenon, <1>4 DEF Claim, Goto, ClaimId, UniqueId, AddMutexFree, Row
<1>5. ASSUME NEW t \in Thread, ClaimFails(t) PROVE CodeInv'
  BY Zenon, <1>5 DEF ClaimFails, Goto, AddMutexFree
<1>6. ASSUME NEW t \in Thread, ClaimAndGrow(t) PROVE CodeInv'
  BY Zenon, <1>6 DEF ClaimAndGrow, Goto, AddMutexFree
<1>7. ASSUME NEW t \in Thread, Grow(t) PROVE CodeInv'
  BY Zenon, <1>7 DEF Grow, Goto, ClaimId, UniqueId, Grown, Row
<1>8. ASSUME NEW t \in Thread, InsertLabel(t) PROVE CodeInv'
  BY Zenon, <1>8 DEF InsertLabel, Goto, BeforeProbe
<1>9. ASSUME NEW t \in Thread, BeginWrite(t) PROVE CodeInv'
  BY Zenon, <1>9 DEF BeginWrite, Goto, WriteSharesAddMutex, Row
<1>10. ASSUME NEW t \in Thread, EndWrite(t) PROVE CodeInv'
  BY Zenon, <1>10 DEF EndWrite, LockInv
<1>11. ASSUME NEW t \in Thread, CheckStructure(t) PROVE CodeInv'
  BY Zenon, <1>11 DEF CheckStructure, Goto, AddMutexFree, AddMutexKept
<1>12. ASSUME NEW t \in Thread, CheckPending(t) PROVE CodeInv'
  BY Zenon, <1>12 DEF CheckPending, Goto
<1>13. ASSUME NEW t \in Thread, AwaitResize(t) PROVE CodeInv'
  BY Zenon, <1>13 DEF AwaitResize, Goto
<1>14. ASSUME NEW t \in Thread, ShareGlobal(t) PROVE CodeInv'
  BY Zenon, <1>14 DEF ShareGlobal, Goto
<1>15. ASSUME NEW t \in Thread, ProbeDuplicate(t) PROVE CodeInv'
  BY Zenon, <1>15 DEF ProbeDuplicate, Goto, Duplicates, Row
<1>16. ASSUME NEW t \in Thread, ProbeUnique(t) PROVE CodeInv'
  BY Zenon, <1>16 DEF ProbeUnique, Goto
<1>17. ASSUME NEW t \in Thread, BindDuplicate(t) PROVE CodeInv'
  BY Zenon, <1>17 DEF BindDuplicate, Goto, SlotInv, BoundWhenVisible
<1>18. ASSUME NEW t \in Thread, TrackDuplicate(t) PROVE CodeInv'
  BY Zenon, <1>18 DEF TrackDuplicate, Goto, GroupOf
<1>19. ASSUME NEW t \in Thread, AllocateSlot(t) PROVE CodeInv'
  BY Zenon, <1>19 DEF AllocateSlot, Goto, SlotFits, NextSlotCount, GrowUnlocked, Row
<1>20. ASSUME NEW t \in Thread, EnsureDone(t) PROVE CodeInv'
  BY Zenon, <1>20 DEF EnsureDone, Goto
<1>21. ASSUME NEW t \in Thread, EnsurePending(t) PROVE CodeInv'
  BY Zenon, <1>21 DEF EnsurePending, Goto
<1>22. ASSUME NEW t \in Thread, EnsureGrow(t) PROVE CodeInv'
  BY Zenon, <1>22 DEF EnsureGrow, Goto, CapacityFor
<1>23. ASSUME NEW t \in Thread, Relock(t) PROVE CodeInv'
  BY Zenon, <1>23 DEF Relock, Goto
<1>24. ASSUME NEW t \in Thread, Store(t) PROVE CodeInv'
  <2>1. code' = [code EXCEPT ![row[t].slot] = row[t].vec] /\ slot' = slot /\ row' = row
    BY Zenon, <1>24 DEF Store
  <2>2. row[t].vec \in Vec
    BY Zenon, <1>24 DEF Store, IdInv, VecsKnown
  <2>3. \A i \in InnerId : slot[i] # row[t].slot
    BY Zenon, <1>24 DEF Store, SlotInv, SlotsCarried, Slotted
  <2>4. \A u \in Thread : pc[u] = "publish" => row[u].slot # row[t].slot
    BY Zenon, <1>24 DEF Store, SlotInv, SlotsDistinct, Slotted
  <2> QED BY <1>24, <2>1, <2>2, <2>3, <2>4 DEF Store, Goto
<1>25. ASSUME NEW t \in Thread, PublishSlot(t) PROVE CodeInv'
  <2>1. row[t].vec \in Vec
    BY Zenon, <1>25 DEF PublishSlot, IdInv, VecsKnown
  <2> QED BY Zenon, <1>25, <2>1 DEF PublishSlot, Goto
<1>26. ASSUME NEW t \in Thread, Link(t) PROVE CodeInv'
  BY Zenon, <1>26 DEF Link, Goto
<1>27. ASSUME NEW t \in Thread, PublishAlone(t) PROVE CodeInv'
  <2>1. code' = [code EXCEPT ![physical_count] = row[t].vec] /\ row' = row
        /\ slot' = [slot EXCEPT ![row[t].id] = physical_count] /\ pc' = [pc EXCEPT ![t] = "idle"]
    BY Zenon, <1>27 DEF PublishAlone, Goto
  <2>2. row[t].vec \in Vec
    BY Zenon, <1>27 DEF PublishAlone, IdInv, VecsKnown
  <2>6. physical_count < max_capacity
    BY Zenon, <1>27 DEF PublishAlone
  <2>3. physical_count \in Slot
    BY <2>6, SlotBounds DEF Slot
  <2>4. \A i \in InnerId : slot[i] # physical_count
    BY Zenon, SlotsBelowCount
  <2>5. \A u \in Thread : pc[u] = "publish" => row[u].slot # physical_count
    BY Zenon, SlotsBelowCount DEF Slotted
  <2> QED BY Zenon, <2>1, <2>2, <2>3, <2>4, <2>5
<1> QED
  BY Zenon, <1>1, <1>2, <1>3, <1>4, <1>5, <1>6, <1>7, <1>8, <1>9, <1>10, <1>11, <1>12, <1>13, <1>14,
     <1>15, <1>16, <1>17, <1>18, <1>19, <1>20, <1>21, <1>22, <1>23, <1>24, <1>25, <1>26, <1>27
        DEF Next, Step

(* No Add is under way in the beginning. *)
LEMMA FirstInit == Init => FirstInv
  BY Zenon DEF Init, FirstInv

(* While the Add that found the index empty runs, no other does. *)
LEMMA FirstStep ==
  ASSUME ~ConcurrentFirst, TypeOK, LockInv, IdInv, FirstInv, [Next]_vars
  PROVE  FirstInv'
<1>0. /\ pc \in [Thread -> PCs] /\ row \in [Thread -> Row]
      /\ bottom \subseteq InnerId /\ total_count \in 0 .. MaxIds
  BY Zenon DEF TypeOK, Row
<1> USE <1>0 DEF FirstInv, graph
<1>1. CASE UNCHANGED vars
  BY Zenon, <1>1 DEF vars
<1>2. ASSUME NEW t \in Thread, NEW l \in Label, NEW v \in Vec, NEW level \in Levels,
            Start(t, l, v, level)
     PROVE  FirstInv'
  <2>1. total_count = 0 => bottom = {}
    BY DEF IdInv, IdsFresh, InnerId
  <2> QED BY Zenon, <1>2, <2>1 DEF Start, Goto, IndexEmpty, NoRow, Active
<1>3. ASSUME NEW t \in Thread, LookupLabel(t) PROVE FirstInv'
  BY Zenon, <1>3 DEF LookupLabel, Goto, LabelTaken
<1>4. ASSUME NEW t \in Thread, Claim(t) PROVE FirstInv'
  BY <1>4 DEF Claim, Goto, ClaimId, UniqueId, AddMutexFree, Row
<1>5. ASSUME NEW t \in Thread, ClaimFails(t) PROVE FirstInv'
  BY Zenon, <1>5 DEF ClaimFails, Goto, AddMutexFree
<1>6. ASSUME NEW t \in Thread, ClaimAndGrow(t) PROVE FirstInv'
  BY Zenon, <1>6 DEF ClaimAndGrow, Goto, AddMutexFree
<1>7. ASSUME NEW t \in Thread, Grow(t) PROVE FirstInv'
  BY <1>7 DEF Grow, Goto, ClaimId, UniqueId, Grown, Row
<1>8. ASSUME NEW t \in Thread, InsertLabel(t) PROVE FirstInv'
  BY Zenon, <1>8 DEF InsertLabel, Goto, BeforeProbe
<1>9. ASSUME NEW t \in Thread, BeginWrite(t) PROVE FirstInv'
  BY ZenonT(40), <1>9 DEF BeginWrite, Goto, WriteSharesAddMutex, Row
<1>10. ASSUME NEW t \in Thread, EndWrite(t) PROVE FirstInv'
  BY Zenon, <1>10 DEF EndWrite, Goto
<1>11. ASSUME NEW t \in Thread, CheckStructure(t) PROVE FirstInv'
  BY Zenon, <1>11 DEF CheckStructure, Goto, AddMutexFree, AddMutexKept
<1>12. ASSUME NEW t \in Thread, CheckPending(t) PROVE FirstInv'
  BY Zenon, <1>12 DEF CheckPending, Goto
<1>13. ASSUME NEW t \in Thread, AwaitResize(t) PROVE FirstInv'
  BY Zenon, <1>13 DEF AwaitResize, Goto
<1>14. ASSUME NEW t \in Thread, ShareGlobal(t) PROVE FirstInv'
  BY Zenon, <1>14 DEF ShareGlobal, Goto
<1>15. ASSUME NEW t \in Thread, ProbeDuplicate(t) PROVE FirstInv'
  BY ZenonT(40), <1>15 DEF ProbeDuplicate, Goto, Duplicates, Row
<1>16. ASSUME NEW t \in Thread, ProbeUnique(t) PROVE FirstInv'
  BY Zenon, <1>16 DEF ProbeUnique, Goto
<1>17. ASSUME NEW t \in Thread, BindDuplicate(t) PROVE FirstInv'
  BY Zenon, <1>17 DEF BindDuplicate, Goto
<1>18. ASSUME NEW t \in Thread, TrackDuplicate(t) PROVE FirstInv'
  BY Zenon, <1>18 DEF TrackDuplicate, Goto, GroupOf
<1>19. ASSUME NEW t \in Thread, AllocateSlot(t) PROVE FirstInv'
  BY <1>19 DEF AllocateSlot, Goto, SlotFits, NextSlotCount, GrowUnlocked, Row
<1>20. ASSUME NEW t \in Thread, EnsureDone(t) PROVE FirstInv'
  BY Zenon, <1>20 DEF EnsureDone, Goto
<1>21. ASSUME NEW t \in Thread, EnsurePending(t) PROVE FirstInv'
  BY Zenon, <1>21 DEF EnsurePending, Goto
<1>22. ASSUME NEW t \in Thread, EnsureGrow(t) PROVE FirstInv'
  BY Zenon, <1>22 DEF EnsureGrow, Goto, CapacityFor
<1>23. ASSUME NEW t \in Thread, Relock(t) PROVE FirstInv'
  BY Zenon, <1>23 DEF Relock, Goto
<1>24. ASSUME NEW t \in Thread, Store(t) PROVE FirstInv'
  BY Zenon, <1>24 DEF Store, Goto
<1>25. ASSUME NEW t \in Thread, PublishSlot(t) PROVE FirstInv'
  BY Zenon, <1>25 DEF PublishSlot, Goto
<1>26. ASSUME NEW t \in Thread, Link(t) PROVE FirstInv'
  BY Zenon, <1>26 DEF Link, Goto
<1>27. ASSUME NEW t \in Thread, PublishAlone(t) PROVE FirstInv'
  BY Zenon, <1>27 DEF PublishAlone, Goto, CapacityFor, NextSlotCount
<1> QED
  BY Zenon, <1>1, <1>2, <1>3, <1>4, <1>5, <1>6, <1>7, <1>8, <1>9, <1>10, <1>11, <1>12, <1>13, <1>14,
     <1>15, <1>16, <1>17, <1>18, <1>19, <1>20, <1>21, <1>22, <1>23, <1>24, <1>25, <1>26, <1>27
        DEF Next, Step

(* No slot is bound in the beginning. *)
LEMMA FaithInit == Init => FaithInv
  BY Zenon DEF Init, FaithInv

(* Every step keeps a bound slot's code equal to the vector of each element bound. *)
LEMMA FaithStep ==
  ASSUME Dedup, ~ConcurrentFirst, TypeOK, LockInv, IdInv, SlotInv, CodeInv, FirstInv, FaithInv,
     [Next]_vars
  PROVE  FaithInv'
<1>0. /\ pc \in [Thread -> PCs] /\ row \in [Thread -> Row]
      /\ slot \in [InnerId -> Slot \cup {None}] /\ code \in [Slot -> Vec \cup {None}]
      /\ vecs \in [InnerId -> Vec \cup {None}] /\ bottom \subseteq InnerId
      /\ physical_count \in 0 .. MaxSlots /\ max_capacity \in 0 .. MaxSlots
      /\ total_count \in 0 .. MaxIds
      /\ \A u \in Thread : row[u].id \in InnerId /\ row[u].slot \in Slot /\ row[u].group \in
         InnerId
  BY Zenon DEF TypeOK, Row
<1> USE <1>0, NoneIsNoValue DEF FaithInv, storage
<1>1. CASE UNCHANGED vars
  BY Zenon, <1>1 DEF vars
<1>2. ASSUME NEW t \in Thread, NEW l \in Label, NEW v \in Vec, NEW level \in Levels,
            Start(t, l, v, level)
     PROVE  FaithInv'
  BY Zenon, <1>2 DEF Start, Goto, AddMutexFree, IndexEmpty, NoRow
<1>3. ASSUME NEW t \in Thread, LookupLabel(t) PROVE FaithInv'
  BY Zenon, <1>3 DEF LookupLabel, Goto, LabelTaken
<1>4. ASSUME NEW t \in Thread, Claim(t) PROVE FaithInv'
  <2>1. total_count \in InnerId /\ slot[total_count] = None
    BY <1>4, BoundsArePositive DEF Claim, LockInv, IdInv, IdsFresh, InnerId
  <2>2. vecs' = [vecs EXCEPT ![total_count] = row[t].vec]
        /\ row' = [row EXCEPT ![t].id = total_count] /\ pc' = [pc EXCEPT ![t] = "label"]
        /\ slot' = slot /\ code' = code
    BY Zenon, <1>4 DEF Claim, ClaimId, UniqueId, Goto
  <2> QED BY Zenon, <2>1, <2>2
<1>5. ASSUME NEW t \in Thread, ClaimFails(t) PROVE FaithInv'
  BY Zenon, <1>5 DEF ClaimFails, Goto, AddMutexFree
<1>6. ASSUME NEW t \in Thread, ClaimAndGrow(t) PROVE FaithInv'
  BY Zenon, <1>6 DEF ClaimAndGrow, Goto, AddMutexFree
<1>7. ASSUME NEW t \in Thread, Grow(t) PROVE FaithInv'
  <2>1. total_count \in InnerId /\ slot[total_count] = None
    BY <1>7, BoundsArePositive DEF Grow, LockInv, IdInv, IdsFresh, InnerId
  <2>2. vecs' = [vecs EXCEPT ![total_count] = row[t].vec]
        /\ row' = [row EXCEPT ![t].id = total_count] /\ pc' = [pc EXCEPT ![t] = "label"]
        /\ slot' = slot /\ code' = code
    BY Zenon, <1>7 DEF Grow, ClaimId, UniqueId, Goto
  <2> QED BY Zenon, <2>1, <2>2
<1>8. ASSUME NEW t \in Thread, InsertLabel(t) PROVE FaithInv'
  BY Zenon, <1>8 DEF InsertLabel, Goto, BeforeProbe
<1>9. ASSUME NEW t \in Thread, BeginWrite(t) PROVE FaithInv'
  BY Zenon, <1>9 DEF BeginWrite, Goto, WriteSharesAddMutex, Row
<1>10. ASSUME NEW t \in Thread, EndWrite(t) PROVE FaithInv'
  BY Zenon, <1>10 DEF EndWrite, LockInv
<1>11. ASSUME NEW t \in Thread, CheckStructure(t) PROVE FaithInv'
  BY Zenon, <1>11 DEF CheckStructure, Goto, AddMutexFree, AddMutexKept
<1>12. ASSUME NEW t \in Thread, CheckPending(t) PROVE FaithInv'
  BY Zenon, <1>12 DEF CheckPending, Goto
<1>13. ASSUME NEW t \in Thread, AwaitResize(t) PROVE FaithInv'
  BY Zenon, <1>13 DEF AwaitResize, Goto
<1>14. ASSUME NEW t \in Thread, ShareGlobal(t) PROVE FaithInv'
  BY Zenon, <1>14 DEF ShareGlobal, Goto
<1>15. ASSUME NEW t \in Thread, ProbeDuplicate(t) PROVE FaithInv'
  <2>1. PICK i \in Duplicates(t) : row' = [row EXCEPT ![t].group = i]
    BY Zenon, <1>15 DEF ProbeDuplicate
  <2>2. i \in bottom /\ ReadCode(t, i) \in {row[t].vec, None} /\ pc[t] = "probe"
    BY Zenon, <1>15, <2>1 DEF Duplicates, ProbeDuplicate
  <2>3. ~row[t].first
    BY Zenon, <2>2 DEF FirstInv
  <2>4. slot[i] # None /\ code[slot[i]] # None
    BY Zenon, <2>2 DEF SlotInv, BoundWhenVisible, CodeInv
  <2>5. code[slot[i]] = row[t].vec
    BY Zenon, <2>2, <2>3, <2>4 DEF ReadCode, StoredCode
  <2>6. slot' = slot /\ code' = code /\ vecs' = vecs /\ pc' = [pc EXCEPT ![t] = "bind_duplicate"]
    BY Zenon, <1>15 DEF ProbeDuplicate, Goto
  <2>7. row'[t].group = i /\ row'[t].vec = row[t].vec /\ \A u \in Thread \ {t} : row'[u] = row[u]
    BY <2>1 DEF Row
  <2> QED BY Zenon, <2>5, <2>6, <2>7
<1>16. ASSUME NEW t \in Thread, ProbeUnique(t) PROVE FaithInv'
  BY ZenonT(40), <1>16 DEF ProbeUnique, Goto
<1>17. ASSUME NEW t \in Thread, BindDuplicate(t) PROVE FaithInv'
  <2>1. slot' = [slot EXCEPT ![row[t].id] = slot[row[t].group]] /\ row' = row
        /\ code' = code /\ vecs' = vecs /\ pc' = [pc EXCEPT ![t] = "track"]
    BY Zenon, <1>17 DEF BindDuplicate, Goto
  <2>2. code[slot[row[t].group]] = vecs[row[t].id]
    BY Zenon, <1>17 DEF BindDuplicate, IdInv, IdsOwned, Unclaimed
  <2>3. \A u \in Thread : pc[u] = "bind_duplicate" => row[u].group # row[t].id
    BY Zenon, <1>17 DEF BindDuplicate, IdInv, IdsOwned, SlotInv, BoundWhenVisible, Unclaimed
  <2> QED BY Zenon, <2>1, <2>2, <2>3
<1>18. ASSUME NEW t \in Thread, TrackDuplicate(t) PROVE FaithInv'
  BY Zenon, <1>18 DEF TrackDuplicate, Goto, GroupOf
<1>19. ASSUME NEW t \in Thread, AllocateSlot(t) PROVE FaithInv'
  BY ZenonT(40), <1>19 DEF AllocateSlot, Goto, SlotFits, NextSlotCount, GrowUnlocked, Row
<1>20. ASSUME NEW t \in Thread, EnsureDone(t) PROVE FaithInv'
  BY Zenon, <1>20 DEF EnsureDone, Goto
<1>21. ASSUME NEW t \in Thread, EnsurePending(t) PROVE FaithInv'
  BY Zenon, <1>21 DEF EnsurePending, Goto
<1>22. ASSUME NEW t \in Thread, EnsureGrow(t) PROVE FaithInv'
  BY Zenon, <1>22 DEF EnsureGrow, Goto, CapacityFor
<1>23. ASSUME NEW t \in Thread, Relock(t) PROVE FaithInv'
  BY Zenon, <1>23 DEF Relock, Goto
<1>24. ASSUME NEW t \in Thread, Store(t) PROVE FaithInv'
  <2>1. code' = [code EXCEPT ![row[t].slot] = row[t].vec] /\ slot' = slot /\ row' = row
        /\ vecs' = vecs /\ pc' = [pc EXCEPT ![t] = "publish"]
    BY Zenon, <1>24 DEF Store, Goto
  <2>2. \A i \in InnerId : slot[i] # row[t].slot
    BY Zenon, <1>24 DEF Store, SlotInv, SlotsCarried, Slotted
  <2>3. \A u \in Thread : pc[u] = "bind_duplicate" =>
          slot[row[u].group] # None /\ row[u].group \in InnerId
    BY Zenon DEF SlotInv, BoundWhenVisible
  <2> QED BY <2>1, <2>2, <2>3
<1>25. ASSUME NEW t \in Thread, PublishSlot(t) PROVE FaithInv'
  <2>1. slot' = [slot EXCEPT ![row[t].id] = row[t].slot] /\ row' = row
        /\ code' = code /\ vecs' = vecs /\ pc' = [pc EXCEPT ![t] = "link"]
    BY Zenon, <1>25 DEF PublishSlot, Goto
  <2>2. code[row[t].slot] = vecs[row[t].id]
    BY Zenon, <1>25 DEF PublishSlot, CodeInv, IdInv, IdsOwned, Unclaimed
  <2>3. \A u \in Thread : pc[u] = "bind_duplicate" => row[u].group # row[t].id
    BY Zenon, <1>25 DEF PublishSlot, IdInv, IdsOwned, SlotInv, BoundWhenVisible, Unclaimed
  <2> QED BY Zenon, <2>1, <2>2, <2>3
<1>26. ASSUME NEW t \in Thread, Link(t) PROVE FaithInv'
  BY Zenon, <1>26 DEF Link, Goto
<1>27. ASSUME NEW t \in Thread, PublishAlone(t) PROVE FaithInv'
  <2>1. code' = [code EXCEPT ![physical_count] = row[t].vec] /\ row' = row
        /\ slot' = [slot EXCEPT ![row[t].id] = physical_count] /\ pc' = [pc EXCEPT ![t] = "idle"]
        /\ vecs' = vecs
    BY Zenon, <1>27 DEF PublishAlone, Goto
  <2>2. row[t].vec = vecs[row[t].id]
    BY Zenon, <1>27 DEF PublishAlone, IdInv, IdsOwned, Unclaimed
  <2>3. physical_count < max_capacity
    BY Zenon, <1>27 DEF PublishAlone
  <2>4. physical_count \in Slot
    BY <2>3, SlotBounds DEF Slot
  <2>5. \A i \in InnerId : slot[i] # physical_count
    BY Zenon, SlotsBelowCount
  <2>6. \A u \in Thread : pc[u] = "bind_duplicate" =>
          row[u].group # row[t].id /\ slot[row[u].group] # None /\ row[u].group \in InnerId
    BY Zenon, <1>27 DEF PublishAlone, IdInv, IdsOwned, SlotInv, BoundWhenVisible, Unclaimed
  <2>7. \A i \in InnerId : slot'[i] # None => code'[slot'[i]] = vecs'[i]
    BY ZenonT(40), <2>1, <2>2, <2>4, <2>5
  <2>8. \A u \in Thread : pc'[u] = "bind_duplicate" => code'[slot'[row'[u].group]] = row'[u].vec
    BY <2>1, <2>4, <2>5, <2>6
  <2> QED BY Zenon, <2>7, <2>8
<1> QED
  BY Zenon, <1>1, <1>2, <1>3, <1>4, <1>5, <1>6, <1>7, <1>8, <1>9, <1>10, <1>11, <1>12, <1>13, <1>14,
     <1>15, <1>16, <1>17, <1>18, <1>19, <1>20, <1>21, <1>22, <1>23, <1>24, <1>25, <1>26, <1>27
        DEF Next, Step

(* No element is linked in the beginning. *)
LEMMA PlainInit == Init => PlainInv
  BY Zenon DEF Init, PlainInv, Unclaimed

(* Every step keeps written what is linked: resize cannot overtake a write.          *)
LEMMA PlainStep ==
  ASSUME ~Dedup, ~SupportForceRemove, TypeOK, LockInv, IdInv, PlainInv, [Next]_vars
  PROVE  PlainInv'
<1>0. /\ pc \in [Thread -> PCs] /\ row \in [Thread -> Row]
      /\ code \in [Slot -> Vec \cup {None}] /\ vecs \in [InnerId -> Vec \cup {None}]
      /\ bottom \subseteq InnerId /\ total_count \in 0 .. MaxIds
      /\ \A u \in Thread : row[u].id \in InnerId /\ row[u].slot \in Slot /\ row[u].group \in
         InnerId
  BY Zenon DEF TypeOK, Row
<1> USE <1>0, NoneIsNoValue DEF PlainInv, Unclaimed, storage, locks, graph
<1>1. CASE UNCHANGED vars
  BY Zenon, <1>1 DEF vars
<1>2. ASSUME NEW t \in Thread, NEW l \in Label, NEW v \in Vec, NEW level \in Levels,
            Start(t, l, v, level)
     PROVE  PlainInv'
  BY Zenon, <1>2 DEF Start, Goto, AddMutexFree, IndexEmpty, NoRow
<1>3. ASSUME NEW t \in Thread, LookupLabel(t) PROVE PlainInv'
  BY Zenon, <1>3 DEF LookupLabel, Goto, LabelTaken
<1>4. ASSUME NEW t \in Thread, Claim(t) PROVE PlainInv'
  <2>1. total_count \in InnerId /\ total_count \notin bottom
    BY <1>4, BoundsArePositive DEF Claim, IdInv, IdsFresh, InnerId
  <2> QED BY Zenon, <1>4, <2>1 DEF Claim, Goto, ClaimId, UniqueId
<1>5. ASSUME NEW t \in Thread, ClaimFails(t) PROVE PlainInv'
  BY Zenon, <1>5 DEF ClaimFails, Goto, AddMutexFree
<1>6. ASSUME NEW t \in Thread, ClaimAndGrow(t) PROVE PlainInv'
  BY Zenon, <1>6 DEF ClaimAndGrow, Goto, AddMutexFree
<1>7. ASSUME NEW t \in Thread, Grow(t) PROVE PlainInv'
  <2>1. total_count \in InnerId /\ total_count \notin bottom
    BY <1>7, BoundsArePositive DEF Grow, LockInv, IdInv, IdsFresh, InnerId
  <2>2. \A u \in Thread : pc[u] # "writing"
    BY Zenon, <1>7 DEF Grow, LockInv
  <2>3. capacity' = max_capacity'
    BY Zenon, <1>7 DEF Grow, Grown
  <2> QED BY Zenon, <1>7, <2>1, <2>2, <2>3 DEF Grow, Goto, ClaimId, UniqueId
<1>8. ASSUME NEW t \in Thread, InsertLabel(t) PROVE PlainInv'
  BY Zenon, <1>8 DEF InsertLabel, Goto, BeforeProbe
<1>9. ASSUME NEW t \in Thread, BeginWrite(t) PROVE PlainInv'
  BY <1>9 DEF BeginWrite, Goto, WriteSharesAddMutex, Row
<1>10. ASSUME NEW t \in Thread, EndWrite(t) PROVE PlainInv'
  <2>1. code' = [code EXCEPT ![row[t].id] = row[t].vec] /\ row' = row /\ bottom' = bottom
        /\ pc' = [pc EXCEPT ![t] = "structure"] /\ add_sharers' = add_sharers \ {t}
        /\ capacity' = capacity /\ max_capacity' = max_capacity /\ vecs' = vecs
        /\ reallocs' = reallocs
    BY Zenon, <1>10 DEF EndWrite, Goto
  <2>2. row[t].id \in Slot /\ row[t].id \notin bottom
    BY Zenon, <1>10, SlotBounds DEF EndWrite, IdInv, IdsOwned
  <2>3. \A u \in Thread \ {t} : pc[u] \notin Unclaimed => row[u].id # row[t].id
    BY Zenon, <1>10 DEF EndWrite, IdInv, IdsDistinct
  <2> QED BY <2>1, <2>2, <2>3
<1>11. ASSUME NEW t \in Thread, CheckStructure(t) PROVE PlainInv'
  BY Zenon, <1>11 DEF CheckStructure, Goto, AddMutexFree, AddMutexKept
<1>12. ASSUME NEW t \in Thread, CheckPending(t) PROVE PlainInv'
  BY Zenon, <1>12 DEF CheckPending, Goto
<1>13. ASSUME NEW t \in Thread, AwaitResize(t) PROVE PlainInv'
  BY Zenon, <1>13 DEF AwaitResize, Goto
<1>14. ASSUME NEW t \in Thread, ShareGlobal(t) PROVE PlainInv'
  BY Zenon, <1>14 DEF ShareGlobal, Goto
<1>15. ASSUME NEW t \in Thread, ProbeDuplicate(t) PROVE PlainInv'
  BY Zenon, <1>15 DEF ProbeDuplicate, Goto, Duplicates, Row
<1>16. ASSUME NEW t \in Thread, ProbeUnique(t) PROVE PlainInv'
  BY ZenonT(40), <1>16 DEF ProbeUnique, Goto
<1>17. ASSUME NEW t \in Thread, BindDuplicate(t) PROVE PlainInv'
  BY Zenon, <1>17 DEF BindDuplicate, Goto
<1>18. ASSUME NEW t \in Thread, TrackDuplicate(t) PROVE PlainInv'
  BY Zenon, <1>18 DEF TrackDuplicate, Goto, GroupOf
<1>19. ASSUME NEW t \in Thread, AllocateSlot(t) PROVE PlainInv'
  BY <1>19 DEF AllocateSlot, Goto, SlotFits, NextSlotCount, GrowUnlocked, Row
<1>20. ASSUME NEW t \in Thread, EnsureDone(t) PROVE PlainInv'
  BY Zenon, <1>20 DEF EnsureDone, Goto
<1>21. ASSUME NEW t \in Thread, EnsurePending(t) PROVE PlainInv'
  BY Zenon, <1>21 DEF EnsurePending, Goto
<1>22. ASSUME NEW t \in Thread, EnsureGrow(t) PROVE PlainInv'
  BY Zenon, <1>22 DEF EnsureGrow, LockInv, Slotted
<1>23. ASSUME NEW t \in Thread, Relock(t) PROVE PlainInv'
  BY Zenon, <1>23 DEF Relock, Goto
<1>24. ASSUME NEW t \in Thread, Store(t) PROVE PlainInv'
  BY Zenon, <1>24 DEF Store, LockInv, Slotted
<1>25. ASSUME NEW t \in Thread, PublishSlot(t) PROVE PlainInv'
  BY Zenon, <1>25 DEF PublishSlot, Goto
<1>26. ASSUME NEW t \in Thread, Link(t) PROVE PlainInv'
  <2>1. code[row[t].id] = vecs[row[t].id] /\ row[t].vec \in Vec /\ row[t].vec = vecs[row[t].id]
    BY <1>26 DEF Link, IdInv, IdsOwned, VecsKnown
  <2> QED BY Zenon, <1>26, <2>1 DEF Link, Goto
<1>27. ASSUME NEW t \in Thread, PublishAlone(t) PROVE PlainInv'
  <2>1. code[row[t].id] = vecs[row[t].id] /\ row[t].vec \in Vec /\ row[t].vec = vecs[row[t].id]
    BY <1>27 DEF PublishAlone, IdInv, IdsOwned, VecsKnown
  <2> QED BY Zenon, <1>27, <2>1 DEF PublishAlone, Goto
<1> QED
  BY Zenon, <1>1, <1>2, <1>3, <1>4, <1>5, <1>6, <1>7, <1>8, <1>9, <1>10, <1>11, <1>12, <1>13, <1>14,
     <1>15, <1>16, <1>17, <1>18, <1>19, <1>20, <1>21, <1>22, <1>23, <1>24, <1>25, <1>26, <1>27
        DEF Next, Step

(* No label is taken in the beginning. *)
LEMMA LabelInit == Init => LabelInv
  BY Zenon DEF Init, LabelInv, LabelsUnique

(* Every step keeps the labels unique: what LookupLabel found stays true until       *)
(* InsertLabel.                                                                  *)
LEMMA LabelStep ==
  ASSUME ~SameLabel, TypeOK, LockInv, IdInv, LabelInv, [Next]_vars
  PROVE  LabelInv'
<1>0. /\ pc \in [Thread -> PCs] /\ row \in [Thread -> Row]
      /\ label \in [InnerId -> Label \cup {None}]
      /\ \A u \in Thread : row[u].id \in InnerId /\ row[u].slot \in Slot /\ row[u].group \in
         InnerId
  BY Zenon DEF TypeOK, Row
<1> USE <1>0, NoneIsNoValue DEF LabelInv, LabelsUnique, LabelTaken, Unclaimed
<1>1. CASE UNCHANGED vars
  BY Zenon, <1>1 DEF vars
<1>2. ASSUME NEW t \in Thread, NEW l \in Label, NEW v \in Vec, NEW level \in Levels,
            Start(t, l, v, level)
     PROVE  LabelInv'
  BY <1>2 DEF Start, Goto, AddMutexFree, IndexEmpty, NoRow, Active
<1>3. ASSUME NEW t \in Thread, LookupLabel(t) PROVE LabelInv'
  BY ZenonT(40), <1>3 DEF LookupLabel, Goto
<1>4. ASSUME NEW t \in Thread, Claim(t) PROVE LabelInv'
  BY <1>4 DEF Claim, Goto, ClaimId, UniqueId, AddMutexFree, Row
<1>5. ASSUME NEW t \in Thread, ClaimFails(t) PROVE LabelInv'
  BY ZenonT(40), <1>5 DEF ClaimFails, Goto, AddMutexFree
<1>6. ASSUME NEW t \in Thread, ClaimAndGrow(t) PROVE LabelInv'
  BY ZenonT(40), <1>6 DEF ClaimAndGrow, Goto, AddMutexFree
<1>7. ASSUME NEW t \in Thread, Grow(t) PROVE LabelInv'
  BY <1>7 DEF Grow, Goto, ClaimId, UniqueId, Grown, Row
<1>8. ASSUME NEW t \in Thread, InsertLabel(t) PROVE LabelInv'
  BY ZenonT(40), <1>8 DEF InsertLabel, Goto, BeforeProbe
<1>9. ASSUME NEW t \in Thread, BeginWrite(t) PROVE LabelInv'
  BY <1>9 DEF BeginWrite, Goto, WriteSharesAddMutex, Row
<1>10. ASSUME NEW t \in Thread, EndWrite(t) PROVE LabelInv'
  BY Zenon, <1>10 DEF EndWrite, Goto
<1>11. ASSUME NEW t \in Thread, CheckStructure(t) PROVE LabelInv'
  BY ZenonT(40), <1>11 DEF CheckStructure, Goto, AddMutexFree, AddMutexKept
<1>12. ASSUME NEW t \in Thread, CheckPending(t) PROVE LabelInv'
  BY ZenonT(40), <1>12 DEF CheckPending, Goto
<1>13. ASSUME NEW t \in Thread, AwaitResize(t) PROVE LabelInv'
  BY ZenonT(40), <1>13 DEF AwaitResize, Goto
<1>14. ASSUME NEW t \in Thread, ShareGlobal(t) PROVE LabelInv'
  BY ZenonT(40), <1>14 DEF ShareGlobal, Goto
<1>15. ASSUME NEW t \in Thread, ProbeDuplicate(t) PROVE LabelInv'
  BY <1>15 DEF ProbeDuplicate, Goto, Duplicates, Row
<1>16. ASSUME NEW t \in Thread, ProbeUnique(t) PROVE LabelInv'
  BY ZenonT(40), <1>16 DEF ProbeUnique, Goto
<1>17. ASSUME NEW t \in Thread, BindDuplicate(t) PROVE LabelInv'
  BY ZenonT(40), <1>17 DEF BindDuplicate, Goto
<1>18. ASSUME NEW t \in Thread, TrackDuplicate(t) PROVE LabelInv'
  BY Zenon, <1>18 DEF TrackDuplicate, Goto, GroupOf
<1>19. ASSUME NEW t \in Thread, AllocateSlot(t) PROVE LabelInv'
  BY <1>19 DEF AllocateSlot, Goto, SlotFits, NextSlotCount, GrowUnlocked, Row
<1>20. ASSUME NEW t \in Thread, EnsureDone(t) PROVE LabelInv'
  BY Zenon, <1>20 DEF EnsureDone, Goto
<1>21. ASSUME NEW t \in Thread, EnsurePending(t) PROVE LabelInv'
  BY ZenonT(40), <1>21 DEF EnsurePending, Goto
<1>22. ASSUME NEW t \in Thread, EnsureGrow(t) PROVE LabelInv'
  BY ZenonT(40), <1>22 DEF EnsureGrow, Goto, CapacityFor
<1>23. ASSUME NEW t \in Thread, Relock(t) PROVE LabelInv'
  BY ZenonT(40), <1>23 DEF Relock, Goto
<1>24. ASSUME NEW t \in Thread, Store(t) PROVE LabelInv'
  BY ZenonT(40), <1>24 DEF Store, Goto
<1>25. ASSUME NEW t \in Thread, PublishSlot(t) PROVE LabelInv'
  BY Zenon, <1>25 DEF PublishSlot, Goto
<1>26. ASSUME NEW t \in Thread, Link(t) PROVE LabelInv'
  BY Zenon, <1>26 DEF Link, Goto
<1>27. ASSUME NEW t \in Thread, PublishAlone(t) PROVE LabelInv'
  BY Zenon, <1>27 DEF PublishAlone, Goto, CapacityFor, NextSlotCount
<1> QED
  BY Zenon, <1>1, <1>2, <1>3, <1>4, <1>5, <1>6, <1>7, <1>8, <1>9, <1>10, <1>11, <1>12, <1>13, <1>14,
     <1>15, <1>16, <1>17, <1>18, <1>19, <1>20, <1>21, <1>22, <1>23, <1>24, <1>25, <1>26, <1>27
        DEF Next, Step

(* The first n numbers are n. *)
LEMMA IntervalSize ==
  ASSUME NEW n \in Nat
  PROVE  IsFiniteSet(0 .. n - 1) /\ Cardinality(0 .. n - 1) = n
<1> PICK m \in Int : m = n - 1
  BY SMT
<1>1. IsFiniteSet(0 .. m) /\ Cardinality(0 .. m) = IF 0 > m THEN 0 ELSE m - 0 + 1
  BY FS_Interval
<1> QED BY <1>1

(* Slots stay held while nothing about those who hold them changes. *)
LEMMA HeldGrows ==
  ASSUME Dedup, HeldInv,
         \A i \in InnerId : i < total_count => i < total_count',
         \A i \in InnerId, s \in SlotCount : HoldsSlot(i, s) => HoldsSlot(i, s)',
         \A s \in SlotCount' : s \notin SlotCount =>
           \E i \in InnerId : i < total_count' /\ HoldsSlot(i, s)'
  PROVE  HeldInv'
<1>1. ASSUME NEW s \in SlotCount'
      PROVE  \E i \in InnerId : i < total_count' /\ HoldsSlot(i, s)'
  <2>1. CASE s \in SlotCount
    <3>1. PICK i \in InnerId : i < total_count /\ HoldsSlot(i, s)
      BY Zenon, <2>1 DEF HeldInv
    <3> QED BY Zenon, <2>1, <3>1
  <2>2. CASE s \notin SlotCount
    BY Zenon, <2>2
  <2> QED BY Zenon, <2>1, <2>2
<1> QED BY Zenon, <1>1 DEF HeldInv

(* A step that touches neither the slots nor those who carry one keeps them held. *)
LEMMA HeldKept ==
  ASSUME Dedup, HeldInv, slot' = slot, physical_count' = physical_count,
         \A i \in InnerId : i < total_count => i < total_count',
         \A u \in Thread : pc[u] \in Slotted =>
           pc'[u] \in Slotted /\ row'[u].id = row[u].id /\ row'[u].slot = row[u].slot
  PROVE  HeldInv'
<1>1. \A i \in InnerId, s \in SlotCount : HoldsSlot(i, s) => HoldsSlot(i, s)'
  BY Zenon DEF HoldsSlot
<1>2. SlotCount' = SlotCount
  BY Zenon DEF SlotCount
<1> QED BY Zenon, <1>1, <1>2, HeldGrows

(* No slot is handed out in the beginning. *)
LEMMA HeldInit == Init => HeldInv
  BY DEF Init, HeldInv, SlotCount

(* Every step leaves the slots handed out in somebody's hands. *)
LEMMA HeldStep ==
  ASSUME Dedup, TypeOK, LockInv, IdInv, SlotInv, HeldInv, [Next]_vars
  PROVE  HeldInv'
<1>0. /\ pc \in [Thread -> PCs] /\ row \in [Thread -> Row]
      /\ slot \in [InnerId -> Slot \cup {None}]
      /\ physical_count \in 0 .. MaxSlots /\ total_count \in 0 .. MaxIds
      /\ \A u \in Thread : row[u].id \in InnerId /\ row[u].slot \in Slot
  BY Zenon DEF TypeOK, Row
<1>01. \A s \in SlotCount : s # None
  BY <1>0, NoneIsNoValue DEF SlotCount
<1> USE <1>0 DEF storage
<1>1. CASE UNCHANGED vars
  BY Zenon, <1>1, HeldKept DEF vars
<1>2. ASSUME NEW t \in Thread, NEW l \in Label, NEW v \in Vec, NEW level \in Levels,
            Start(t, l, v, level)
     PROVE  HeldInv'
  <2>1. slot' = slot /\ physical_count' = physical_count /\ total_count' = total_count
    BY Zenon, <1>2 DEF Start
  <2>2. \A u \in Thread : pc[u] \in Slotted =>
          pc'[u] \in Slotted /\ row'[u].id = row[u].id /\ row'[u].slot = row[u].slot
    BY Zenon, <1>2 DEF Start, Goto, NoRow, Slotted
  <2> QED BY Zenon, <2>1, <2>2, HeldKept
<1>3. ASSUME NEW t \in Thread, LookupLabel(t) PROVE HeldInv'
  <2>1. slot' = slot /\ physical_count' = physical_count /\ total_count' = total_count
    BY Zenon, <1>3 DEF LookupLabel
  <2>2. \A u \in Thread : pc[u] \in Slotted =>
          pc'[u] \in Slotted /\ row'[u].id = row[u].id /\ row'[u].slot = row[u].slot
    BY Zenon, <1>3 DEF LookupLabel, Goto, Slotted
  <2> QED BY Zenon, <2>1, <2>2, HeldKept
<1>4. ASSUME NEW t \in Thread, Claim(t) PROVE HeldInv'
  <2>1. total_count \in InnerId /\ total_count' = total_count + 1
    BY <1>4, BoundsArePositive DEF Claim, ClaimId, UniqueId, LockInv, InnerId
  <2>2. \A i \in InnerId : i < total_count => i < total_count'
    BY <2>1 DEF InnerId
  <2>3. pc[t] \notin Slotted /\ slot' = slot /\ physical_count' = physical_count
        /\ row' = [row EXCEPT ![t].id = total_count] /\ pc' = [pc EXCEPT ![t] = "label"]
    BY Zenon, <1>4 DEF Claim, ClaimId, UniqueId, Goto, Slotted
  <2>4. \A u \in Thread : pc[u] \in Slotted =>
          pc'[u] \in Slotted /\ row'[u].id = row[u].id /\ row'[u].slot = row[u].slot
    BY Zenon, <2>3
  <2> QED BY Zenon, <2>2, <2>3, <2>4, HeldKept
<1>5. ASSUME NEW t \in Thread, ClaimFails(t) PROVE HeldInv'
  <2>1. slot' = slot /\ physical_count' = physical_count /\ total_count' = total_count
    BY Zenon, <1>5 DEF ClaimFails
  <2>2. \A u \in Thread : pc[u] \in Slotted =>
          pc'[u] \in Slotted /\ row'[u].id = row[u].id /\ row'[u].slot = row[u].slot
    BY Zenon, <1>5 DEF ClaimFails, Goto, Slotted
  <2> QED BY Zenon, <2>1, <2>2, HeldKept
<1>6. ASSUME NEW t \in Thread, ClaimAndGrow(t) PROVE HeldInv'
  <2>1. slot' = slot /\ physical_count' = physical_count /\ total_count' = total_count
    BY Zenon, <1>6 DEF ClaimAndGrow
  <2>2. \A u \in Thread : pc[u] \in Slotted =>
          pc'[u] \in Slotted /\ row'[u].id = row[u].id /\ row'[u].slot = row[u].slot
    BY Zenon, <1>6 DEF ClaimAndGrow, Goto, Slotted
  <2> QED BY Zenon, <2>1, <2>2, HeldKept
<1>7. ASSUME NEW t \in Thread, Grow(t) PROVE HeldInv'
  <2>1. total_count \in InnerId /\ total_count' = total_count + 1
    BY <1>7, BoundsArePositive DEF Grow, ClaimId, UniqueId, LockInv, InnerId
  <2>2. \A i \in InnerId : i < total_count => i < total_count'
    BY <2>1 DEF InnerId
  <2>3. pc[t] \notin Slotted /\ slot' = slot /\ physical_count' = physical_count
        /\ row' = [row EXCEPT ![t].id = total_count] /\ pc' = [pc EXCEPT ![t] = "label"]
    BY Zenon, <1>7 DEF Grow, ClaimId, UniqueId, Goto, Slotted
  <2>4. \A u \in Thread : pc[u] \in Slotted =>
          pc'[u] \in Slotted /\ row'[u].id = row[u].id /\ row'[u].slot = row[u].slot
    BY Zenon, <2>3
  <2> QED BY Zenon, <2>2, <2>3, <2>4, HeldKept
<1>8. ASSUME NEW t \in Thread, InsertLabel(t) PROVE HeldInv'
  <2>1. slot' = slot /\ physical_count' = physical_count /\ total_count' = total_count
    BY Zenon, <1>8 DEF InsertLabel
  <2>2. \A u \in Thread : pc[u] \in Slotted =>
          pc'[u] \in Slotted /\ row'[u].id = row[u].id /\ row'[u].slot = row[u].slot
    BY Zenon, <1>8 DEF InsertLabel, Goto, Slotted
  <2> QED BY Zenon, <2>1, <2>2, HeldKept
<1>9. ASSUME NEW t \in Thread, BeginWrite(t) PROVE HeldInv'
  <2>1. slot' = slot /\ physical_count' = physical_count /\ total_count' = total_count
    BY Zenon, <1>9 DEF BeginWrite
  <2>2. \A u \in Thread : pc[u] \in Slotted =>
          pc'[u] \in Slotted /\ row'[u].id = row[u].id /\ row'[u].slot = row[u].slot
    BY Zenon, <1>9 DEF BeginWrite, Goto, Row, Slotted
  <2> QED BY Zenon, <2>1, <2>2, HeldKept
<1>10. ASSUME NEW t \in Thread, EndWrite(t) PROVE HeldInv'
  <2>1. slot' = slot /\ physical_count' = physical_count /\ total_count' = total_count
    BY Zenon, <1>10 DEF EndWrite
  <2>2. \A u \in Thread : pc[u] \in Slotted =>
          pc'[u] \in Slotted /\ row'[u].id = row[u].id /\ row'[u].slot = row[u].slot
    BY Zenon, <1>10 DEF EndWrite, Goto, Slotted
  <2> QED BY Zenon, <2>1, <2>2, HeldKept
<1>11. ASSUME NEW t \in Thread, CheckStructure(t) PROVE HeldInv'
  <2>1. slot' = slot /\ physical_count' = physical_count /\ total_count' = total_count
    BY Zenon, <1>11 DEF CheckStructure
  <2>2. \A u \in Thread : pc[u] \in Slotted =>
          pc'[u] \in Slotted /\ row'[u].id = row[u].id /\ row'[u].slot = row[u].slot
    BY Zenon, <1>11 DEF CheckStructure, Goto, Slotted
  <2> QED BY Zenon, <2>1, <2>2, HeldKept
<1>12. ASSUME NEW t \in Thread, CheckPending(t) PROVE HeldInv'
  <2>1. slot' = slot /\ physical_count' = physical_count /\ total_count' = total_count
    BY Zenon, <1>12 DEF CheckPending
  <2>2. \A u \in Thread : pc[u] \in Slotted =>
          pc'[u] \in Slotted /\ row'[u].id = row[u].id /\ row'[u].slot = row[u].slot
    BY Zenon, <1>12 DEF CheckPending, Goto, Slotted
  <2> QED BY Zenon, <2>1, <2>2, HeldKept
<1>13. ASSUME NEW t \in Thread, AwaitResize(t) PROVE HeldInv'
  <2>1. slot' = slot /\ physical_count' = physical_count /\ total_count' = total_count
    BY Zenon, <1>13 DEF AwaitResize
  <2>2. \A u \in Thread : pc[u] \in Slotted =>
          pc'[u] \in Slotted /\ row'[u].id = row[u].id /\ row'[u].slot = row[u].slot
    BY Zenon, <1>13 DEF AwaitResize, Goto, Slotted
  <2> QED BY Zenon, <2>1, <2>2, HeldKept
<1>14. ASSUME NEW t \in Thread, ShareGlobal(t) PROVE HeldInv'
  <2>1. slot' = slot /\ physical_count' = physical_count /\ total_count' = total_count
    BY Zenon, <1>14 DEF ShareGlobal
  <2>2. \A u \in Thread : pc[u] \in Slotted =>
          pc'[u] \in Slotted /\ row'[u].id = row[u].id /\ row'[u].slot = row[u].slot
    BY Zenon, <1>14 DEF ShareGlobal, Goto, Slotted
  <2> QED BY Zenon, <2>1, <2>2, HeldKept
<1>15. ASSUME NEW t \in Thread, ProbeDuplicate(t) PROVE HeldInv'
  <2>1. slot' = slot /\ physical_count' = physical_count /\ total_count' = total_count
    BY Zenon, <1>15 DEF ProbeDuplicate
  <2>2. \A u \in Thread : pc[u] \in Slotted =>
          pc'[u] \in Slotted /\ row'[u].id = row[u].id /\ row'[u].slot = row[u].slot
    BY Zenon, <1>15 DEF ProbeDuplicate, Goto, Row, Slotted
  <2> QED BY Zenon, <2>1, <2>2, HeldKept
<1>16. ASSUME NEW t \in Thread, ProbeUnique(t) PROVE HeldInv'
  <2>1. slot' = slot /\ physical_count' = physical_count /\ total_count' = total_count
    BY Zenon, <1>16 DEF ProbeUnique
  <2>2. \A u \in Thread : pc[u] \in Slotted =>
          pc'[u] \in Slotted /\ row'[u].id = row[u].id /\ row'[u].slot = row[u].slot
    BY Zenon, <1>16 DEF ProbeUnique, Goto, Slotted
  <2> QED BY Zenon, <2>1, <2>2, HeldKept
<1>17. ASSUME NEW t \in Thread, BindDuplicate(t) PROVE HeldInv'
  <2>1. slot' = [slot EXCEPT ![row[t].id] = slot[row[t].group]] /\ row' = row
        /\ physical_count' = physical_count /\ total_count' = total_count
        /\ \A u \in Thread : pc[u] \in Slotted => pc'[u] = pc[u]
    BY Zenon, <1>17 DEF BindDuplicate, Goto, Slotted
  <2>2. slot[row[t].id] = None
    BY Zenon, <1>17 DEF BindDuplicate, SlotInv, BoundWhenVisible, Unclaimed
  <2>3. \A i \in InnerId, s \in SlotCount : slot[i] = s => slot'[i] = s
    BY Zenon, <2>1, <2>2, <1>01
  <2>4. \A i \in InnerId, s \in SlotCount : HoldsSlot(i, s) => HoldsSlot(i, s)'
    BY Zenon, <2>1, <2>3 DEF HoldsSlot
  <2>5. SlotCount' = SlotCount
    BY Zenon, <2>1 DEF SlotCount
  <2> QED BY Zenon, <2>1, <2>4, <2>5, HeldGrows
<1>18. ASSUME NEW t \in Thread, TrackDuplicate(t) PROVE HeldInv'
  <2>1. slot' = slot /\ physical_count' = physical_count /\ total_count' = total_count
    BY Zenon, <1>18 DEF TrackDuplicate
  <2>2. \A u \in Thread : pc[u] \in Slotted =>
          pc'[u] \in Slotted /\ row'[u].id = row[u].id /\ row'[u].slot = row[u].slot
    BY Zenon, <1>18 DEF TrackDuplicate, Goto, Slotted
  <2> QED BY Zenon, <2>1, <2>2, HeldKept
<1>19. ASSUME NEW t \in Thread, AllocateSlot(t) PROVE HeldInv'
  <2>1. physical_count' = physical_count + 1 /\ slot' = slot /\ total_count' = total_count
        /\ row' = [row EXCEPT ![t].slot = physical_count] /\ pc[t] = "allocate"
    BY Zenon, <1>19 DEF AllocateSlot, NextSlotCount
  <2>2. pc' = [pc EXCEPT ![t] = "store"] \/ pc' = [pc EXCEPT ![t] = "ensure"]
    BY Zenon, <1>19 DEF AllocateSlot, Goto
  <2>3. \A u \in Thread : pc[u] \in Slotted =>
          pc'[u] \in Slotted /\ row'[u] = row[u]
    BY Zenon, <2>1, <2>2 DEF Slotted
  <2>4. row[t].id < total_count /\ row'[t].id = row[t].id /\ row'[t].slot = physical_count
        /\ pc'[t] \in Slotted
    BY ZenonT(40), <2>1, <2>2 DEF IdInv, IdsOwned, Unclaimed, Row, Slotted
  <2>5. \A s \in SlotCount' : s \in SlotCount \/ s = physical_count
    BY <2>1 DEF SlotCount
  <2>6. \A i \in InnerId, s \in SlotCount : HoldsSlot(i, s) => HoldsSlot(i, s)'
    BY Zenon, <2>1, <2>3 DEF HoldsSlot
  <2>7. \A s \in SlotCount' : s \notin SlotCount =>
          \E i \in InnerId : i < total_count' /\ HoldsSlot(i, s)'
    <3>1. PICK i \in InnerId : i = row[t].id
      BY Zenon
    <3>2. PICK n : n = physical_count
      BY Zenon
    <3>3. i < total_count' /\ HoldsSlot(i, n)'
      BY Zenon, <2>1, <2>4, <3>1, <3>2 DEF HoldsSlot
    <3> QED BY Zenon, <2>5, <3>1, <3>2, <3>3
  <2> QED BY Zenon, <2>1, <2>6, <2>7, HeldGrows
<1>20. ASSUME NEW t \in Thread, EnsureDone(t) PROVE HeldInv'
  <2>1. slot' = slot /\ physical_count' = physical_count /\ total_count' = total_count
    BY Zenon, <1>20 DEF EnsureDone
  <2>2. \A u \in Thread : pc[u] \in Slotted =>
          pc'[u] \in Slotted /\ row'[u].id = row[u].id /\ row'[u].slot = row[u].slot
    BY Zenon, <1>20 DEF EnsureDone, Goto, Slotted
  <2> QED BY Zenon, <2>1, <2>2, HeldKept
<1>21. ASSUME NEW t \in Thread, EnsurePending(t) PROVE HeldInv'
  <2>1. slot' = slot /\ physical_count' = physical_count /\ total_count' = total_count
    BY Zenon, <1>21 DEF EnsurePending
  <2>2. \A u \in Thread : pc[u] \in Slotted =>
          pc'[u] \in Slotted /\ row'[u].id = row[u].id /\ row'[u].slot = row[u].slot
    BY Zenon, <1>21 DEF EnsurePending, Goto, Slotted
  <2> QED BY Zenon, <2>1, <2>2, HeldKept
<1>22. ASSUME NEW t \in Thread, EnsureGrow(t) PROVE HeldInv'
  <2>1. slot' = slot /\ physical_count' = physical_count /\ total_count' = total_count
    BY Zenon, <1>22 DEF EnsureGrow
  <2>2. \A u \in Thread : pc[u] \in Slotted =>
          pc'[u] \in Slotted /\ row'[u].id = row[u].id /\ row'[u].slot = row[u].slot
    BY Zenon, <1>22 DEF EnsureGrow, Goto, Slotted
  <2> QED BY Zenon, <2>1, <2>2, HeldKept
<1>23. ASSUME NEW t \in Thread, Relock(t) PROVE HeldInv'
  <2>1. slot' = slot /\ physical_count' = physical_count /\ total_count' = total_count
    BY Zenon, <1>23 DEF Relock
  <2>2. \A u \in Thread : pc[u] \in Slotted =>
          pc'[u] \in Slotted /\ row'[u].id = row[u].id /\ row'[u].slot = row[u].slot
    BY Zenon, <1>23 DEF Relock, Goto, Slotted
  <2> QED BY Zenon, <2>1, <2>2, HeldKept
<1>24. ASSUME NEW t \in Thread, Store(t) PROVE HeldInv'
  <2>1. slot' = slot /\ physical_count' = physical_count /\ total_count' = total_count
    BY Zenon, <1>24 DEF Store
  <2>2. \A u \in Thread : pc[u] \in Slotted =>
          pc'[u] \in Slotted /\ row'[u].id = row[u].id /\ row'[u].slot = row[u].slot
    BY Zenon, <1>24 DEF Store, Goto, Slotted
  <2> QED BY Zenon, <2>1, <2>2, HeldKept
<1>25. ASSUME NEW t \in Thread, PublishSlot(t) PROVE HeldInv'
  <2>1. slot' = [slot EXCEPT ![row[t].id] = row[t].slot] /\ row' = row
        /\ physical_count' = physical_count /\ total_count' = total_count
        /\ \A u \in Thread \ {t} : pc[u] \in Slotted => pc'[u] \in Slotted
    BY Zenon, <1>25 DEF PublishSlot, Goto
  <2>2. slot[row[t].id] = None
    BY Zenon, <1>25 DEF PublishSlot, SlotInv, BoundWhenVisible, Unclaimed
  <2>3. \A i \in InnerId, s \in SlotCount : slot[i] = s => slot'[i] = s
    BY Zenon, <2>1, <2>2, <1>01
  <2>4. slot'[row[t].id] = row[t].slot
    BY Zenon, <2>1
  <2>5. \A i \in InnerId, s \in SlotCount : HoldsSlot(i, s) => HoldsSlot(i, s)'
    BY Zenon, <2>1, <2>3, <2>4 DEF HoldsSlot
  <2>6. SlotCount' = SlotCount
    BY Zenon, <2>1 DEF SlotCount
  <2> QED BY Zenon, <2>1, <2>5, <2>6, HeldGrows
<1>26. ASSUME NEW t \in Thread, Link(t) PROVE HeldInv'
  <2>1. slot' = slot /\ physical_count' = physical_count /\ total_count' = total_count
    BY Zenon, <1>26 DEF Link
  <2>2. \A u \in Thread : pc[u] \in Slotted =>
          pc'[u] \in Slotted /\ row'[u].id = row[u].id /\ row'[u].slot = row[u].slot
    BY Zenon, <1>26 DEF Link, Goto, Slotted
  <2> QED BY Zenon, <2>1, <2>2, HeldKept
<1>27. ASSUME NEW t \in Thread, PublishAlone(t) PROVE HeldInv'
  <2>1. physical_count' = physical_count + 1 /\ row' = row /\ total_count' = total_count
        /\ slot' = [slot EXCEPT ![row[t].id] = physical_count]
        /\ \A u \in Thread : pc[u] \in Slotted => pc'[u] = pc[u]
    BY Zenon, <1>27 DEF PublishAlone, NextSlotCount, Goto, Slotted
  <2>2. slot[row[t].id] = None /\ row[t].id < total_count
    BY Zenon, <1>27 DEF PublishAlone, SlotInv, BoundWhenVisible, IdInv, IdsOwned, Unclaimed
  <2>3. \A i \in InnerId, s \in SlotCount : slot[i] = s => slot'[i] = s
    BY Zenon, <2>1, <2>2, <1>01
  <2>4. slot'[row[t].id] = physical_count
    BY Zenon, <2>1
  <2>5. \A s \in SlotCount' : s \in SlotCount \/ s = physical_count
    BY <2>1 DEF SlotCount
  <2>6. \A i \in InnerId, s \in SlotCount : HoldsSlot(i, s) => HoldsSlot(i, s)'
    BY Zenon, <2>1, <2>3 DEF HoldsSlot
  <2>7. \A s \in SlotCount' : s \notin SlotCount =>
          \E i \in InnerId : i < total_count' /\ HoldsSlot(i, s)'
    <3>1. PICK i \in InnerId : i = row[t].id
      BY Zenon
    <3>2. PICK n : n = physical_count
      BY Zenon
    <3>3. i < total_count' /\ HoldsSlot(i, n)'
      BY Zenon, <2>1, <2>2, <2>4, <3>1, <3>2 DEF HoldsSlot
    <3> QED BY Zenon, <2>5, <3>1, <3>2, <3>3
  <2> QED BY Zenon, <2>1, <2>6, <2>7, HeldGrows
<1> QED
  BY Zenon, <1>1, <1>2, <1>3, <1>4, <1>5, <1>6, <1>7, <1>8, <1>9, <1>10, <1>11, <1>12, <1>13, <1>14,
     <1>15, <1>16, <1>17, <1>18, <1>19, <1>20, <1>21, <1>22, <1>23, <1>24, <1>25, <1>26, <1>27
        DEF Next, Step

(* Slots held by distinct elements are as many as the elements at most: an element    *)
(* holds one slot, bound or carried, and every slot handed out is held.               *)
LEMMA HeldSlotsAreFew ==
  ASSUME Dedup, TypeOK, IdInv, SlotInv, HeldInv
  PROVE  physical_count <= total_count
<1> DEFINE Ids == 0 .. total_count - 1
           Holders == {i \in Ids : \E s \in SlotCount : HoldsSlot(i, s)}
           held == [i \in Holders |-> CHOOSE s \in SlotCount : HoldsSlot(i, s)]
<1>1. physical_count \in Nat /\ total_count \in Nat /\ Ids \subseteq InnerId
  BY BoundsArePositive DEF TypeOK, InnerId
<1>2. ASSUME NEW i \in InnerId, NEW s \in SlotCount, NEW r \in SlotCount, HoldsSlot(i, s),
             HoldsSlot(i, r)
      PROVE  s = r
  <2>1. s # None /\ r # None
    BY <1>1, NoneIsNoValue DEF SlotCount
  <2>2. \A t \in Thread : pc[t] \in Slotted => slot[row[t].id] = None
    BY Zenon DEF SlotInv, BoundWhenVisible, Slotted, Unclaimed
  <2>3. \A t, u \in Thread : pc[t] \in Slotted /\ pc[u] \in Slotted /\ row[t].id = row[u].id => t = u
    BY Zenon DEF IdInv, IdsDistinct, Slotted, Unclaimed
  <2> QED BY Zenon, <1>2, <2>1, <2>2, <2>3 DEF HoldsSlot
<1>3. held \in [Holders -> SlotCount]
  BY Zenon
<1>4. ASSUME NEW s \in SlotCount PROVE \E i \in Holders : held[i] = s
  <2>1. PICK i \in InnerId : i < total_count /\ HoldsSlot(i, s)
    BY Zenon DEF HeldInv
  <2>2. i \in Ids
    BY <1>1, <2>1 DEF InnerId
  <2>3. i \in Holders
    BY Zenon, <2>1, <2>2
  <2>4. held[i] \in SlotCount /\ HoldsSlot(i, held[i])
    BY Zenon, <2>3
  <2>5. held[i] = s
    BY Zenon, <1>2, <2>1, <2>4
  <2> QED BY Zenon, <2>3, <2>5
<1>5. held \in Surjection(Holders, SlotCount)
  BY Zenon, <1>3, <1>4 DEF Surjection
<1>6. IsFiniteSet(Ids) /\ Cardinality(Ids) = total_count
  BY <1>1, IntervalSize
<1>7. IsFiniteSet(SlotCount) /\ Cardinality(SlotCount) = physical_count
  BY <1>1, IntervalSize DEF SlotCount
<1>8. IsFiniteSet(Holders) /\ Cardinality(Holders) <= Cardinality(Ids)
  <2>1. Holders \subseteq Ids
    BY Zenon
  <2> QED BY Zenon, <1>6, <2>1, FS_Subset
<1>9. Cardinality(SlotCount) <= Cardinality(Holders)
  BY ZenonT(40), <1>5, <1>8, FS_Surjection
<1>10. Cardinality(Holders) \in Nat
  BY Zenon, <1>8, FS_CardinalityType
<1> QED BY SMTT(30), <1>1, <1>6, <1>7, <1>8, <1>9, <1>10

(* No id is claimed in the beginning, so every one is a group of its own. *)
LEMMA GroupInit == Init => GroupInv
  BY DEF Init, GroupInv, InnerId

(* Every step keeps the members of a group equal, whoever joins it. *)
LEMMA GroupStep ==
  ASSUME Dedup, ~ConcurrentFirst, TypeOK, LockInv, IdInv, SlotInv, CodeInv, FirstInv, FaithInv,
         GroupInv, [Next]_vars
  PROVE  GroupInv'
<1>0. /\ pc \in [Thread -> PCs] /\ row \in [Thread -> Row]
      /\ vecs \in [InnerId -> Vec \cup {None}] /\ group \in [InnerId -> InnerId]
      /\ total_count \in 0 .. MaxIds /\ bottom \subseteq InnerId
      /\ \A u \in Thread : row[u].id \in InnerId /\ row[u].group \in InnerId
  BY Zenon DEF TypeOK, Row
<1> USE <1>0 DEF GroupInv, graph
<1>1. CASE UNCHANGED vars
  BY Zenon, <1>1 DEF vars
<1>2. ASSUME NEW t \in Thread, NEW l \in Label, NEW v \in Vec, NEW level \in Levels,
            Start(t, l, v, level)
     PROVE  GroupInv'
  <2>1. vecs' = vecs /\ group' = group /\ total_count' = total_count
    BY Zenon, <1>2 DEF Start
  <2>2. \A u \in Thread : pc'[u] \in {"bind_duplicate", "track"} =>
          /\ pc[u] \in {"bind_duplicate", "track"}
          /\ row'[u].group = row[u].group /\ row'[u].vec = row[u].vec
    BY Zenon, <1>2 DEF Start, Goto, NoRow
  <2> QED BY Zenon, <2>1, <2>2
<1>3. ASSUME NEW t \in Thread, LookupLabel(t) PROVE GroupInv'
  <2>1. vecs' = vecs /\ group' = group /\ total_count' = total_count
    BY Zenon, <1>3 DEF LookupLabel
  <2>2. \A u \in Thread : pc'[u] \in {"bind_duplicate", "track"} =>
          /\ pc[u] \in {"bind_duplicate", "track"}
          /\ row'[u].group = row[u].group /\ row'[u].vec = row[u].vec
    BY Zenon, <1>3 DEF LookupLabel, Goto
  <2> QED BY Zenon, <2>1, <2>2
<1>4. ASSUME NEW t \in Thread, Claim(t) PROVE GroupInv'
  <2>1. /\ total_count \in InnerId /\ total_count' = total_count + 1
        /\ \A i \in InnerId : i < total_count' => (i < total_count \/ i = total_count)
        /\ \A i \in InnerId : i < total_count => i < total_count' /\ i # total_count
        /\ \A i \in InnerId : i >= total_count' => i >= total_count /\ i # total_count
        /\ total_count < total_count' /\ ~(total_count >= total_count')
        /\ total_count >= total_count
    BY <1>4, BoundsArePositive DEF Claim, ClaimId, UniqueId, LockInv, InnerId
  <2>2. vecs' = [vecs EXCEPT ![total_count] = row[t].vec] /\ group' = group
        /\ row' = [row EXCEPT ![t].id = total_count] /\ pc' = [pc EXCEPT ![t] = "label"]
    BY Zenon, <1>4 DEF Claim, ClaimId, UniqueId, Goto, graph
  <2>3. ASSUME NEW i \in InnerId
        PROVE  /\ vecs'[i] = vecs'[group'[i]]
               /\ i < total_count' => group'[i] < total_count'
               /\ i >= total_count' => group'[i] = i
    <3>1. CASE i = total_count
      BY Zenon, <2>1, <2>2, <3>1
    <3>2. CASE i # total_count /\ i < total_count
      BY Zenon, <2>1, <2>2, <3>2
    <3>3. CASE i # total_count /\ ~(i < total_count)
      BY <2>1, <2>2, <3>3 DEF InnerId
    <3> QED BY Zenon, <3>1, <3>2, <3>3
  <2>4. ASSUME NEW u \in Thread, pc'[u] \in {"bind_duplicate", "track"}
        PROVE  row'[u].group < total_count' /\ vecs'[row'[u].group] = row'[u].vec
    BY Zenon, <2>1, <2>2, <2>4
  <2> QED BY Zenon, <2>3, <2>4
<1>5. ASSUME NEW t \in Thread, ClaimFails(t) PROVE GroupInv'
  <2>1. vecs' = vecs /\ group' = group /\ total_count' = total_count
    BY Zenon, <1>5 DEF ClaimFails
  <2>2. \A u \in Thread : pc'[u] \in {"bind_duplicate", "track"} =>
          /\ pc[u] \in {"bind_duplicate", "track"}
          /\ row'[u].group = row[u].group /\ row'[u].vec = row[u].vec
    BY Zenon, <1>5 DEF ClaimFails, Goto
  <2> QED BY Zenon, <2>1, <2>2
<1>6. ASSUME NEW t \in Thread, ClaimAndGrow(t) PROVE GroupInv'
  <2>1. vecs' = vecs /\ group' = group /\ total_count' = total_count
    BY Zenon, <1>6 DEF ClaimAndGrow
  <2>2. \A u \in Thread : pc'[u] \in {"bind_duplicate", "track"} =>
          /\ pc[u] \in {"bind_duplicate", "track"}
          /\ row'[u].group = row[u].group /\ row'[u].vec = row[u].vec
    BY Zenon, <1>6 DEF ClaimAndGrow, Goto
  <2> QED BY Zenon, <2>1, <2>2
<1>7. ASSUME NEW t \in Thread, Grow(t) PROVE GroupInv'
  <2>1. /\ total_count \in InnerId /\ total_count' = total_count + 1
        /\ \A i \in InnerId : i < total_count' => (i < total_count \/ i = total_count)
        /\ \A i \in InnerId : i < total_count => i < total_count' /\ i # total_count
        /\ \A i \in InnerId : i >= total_count' => i >= total_count /\ i # total_count
        /\ total_count < total_count' /\ ~(total_count >= total_count')
        /\ total_count >= total_count
    BY SMTT(30), <1>7, BoundsArePositive DEF Grow, ClaimId, UniqueId, LockInv, InnerId
  <2>2. vecs' = [vecs EXCEPT ![total_count] = row[t].vec] /\ group' = group
        /\ row' = [row EXCEPT ![t].id = total_count] /\ pc' = [pc EXCEPT ![t] = "label"]
    BY Zenon, <1>7 DEF Grow, ClaimId, UniqueId, Goto, graph
  <2>3. ASSUME NEW i \in InnerId
        PROVE  /\ vecs'[i] = vecs'[group'[i]]
               /\ i < total_count' => group'[i] < total_count'
               /\ i >= total_count' => group'[i] = i
    <3>1. CASE i = total_count
      BY Zenon, <2>1, <2>2, <3>1
    <3>2. CASE i # total_count /\ i < total_count
      BY Zenon, <2>1, <2>2, <3>2
    <3>3. CASE i # total_count /\ ~(i < total_count)
      BY <2>1, <2>2, <3>3 DEF InnerId
    <3> QED BY Zenon, <3>1, <3>2, <3>3
  <2>4. ASSUME NEW u \in Thread, pc'[u] \in {"bind_duplicate", "track"}
        PROVE  row'[u].group < total_count' /\ vecs'[row'[u].group] = row'[u].vec
    BY Zenon, <2>1, <2>2, <2>4
  <2> QED BY Zenon, <2>3, <2>4
<1>8. ASSUME NEW t \in Thread, InsertLabel(t) PROVE GroupInv'
  <2>1. vecs' = vecs /\ group' = group /\ total_count' = total_count
    BY Zenon, <1>8 DEF InsertLabel
  <2>2. \A u \in Thread : pc'[u] \in {"bind_duplicate", "track"} =>
          /\ pc[u] \in {"bind_duplicate", "track"}
          /\ row'[u].group = row[u].group /\ row'[u].vec = row[u].vec
    BY Zenon, <1>8 DEF InsertLabel, Goto, BeforeProbe
  <2> QED BY Zenon, <2>1, <2>2
<1>9. ASSUME NEW t \in Thread, BeginWrite(t) PROVE GroupInv'
  <2>1. vecs' = vecs /\ group' = group /\ total_count' = total_count
    BY Zenon, <1>9 DEF BeginWrite
  <2>2. \A u \in Thread : pc'[u] \in {"bind_duplicate", "track"} =>
          /\ pc[u] \in {"bind_duplicate", "track"}
          /\ row'[u].group = row[u].group /\ row'[u].vec = row[u].vec
    BY Zenon, <1>9 DEF BeginWrite, Goto, Row
  <2> QED BY Zenon, <2>1, <2>2
<1>10. ASSUME NEW t \in Thread, EndWrite(t) PROVE GroupInv'
  <2>1. vecs' = vecs /\ group' = group /\ total_count' = total_count
    BY Zenon, <1>10 DEF EndWrite
  <2>2. \A u \in Thread : pc'[u] \in {"bind_duplicate", "track"} =>
          /\ pc[u] \in {"bind_duplicate", "track"}
          /\ row'[u].group = row[u].group /\ row'[u].vec = row[u].vec
    BY Zenon, <1>10 DEF EndWrite, Goto
  <2> QED BY Zenon, <2>1, <2>2
<1>11. ASSUME NEW t \in Thread, CheckStructure(t) PROVE GroupInv'
  <2>1. vecs' = vecs /\ group' = group /\ total_count' = total_count
    BY Zenon, <1>11 DEF CheckStructure
  <2>2. \A u \in Thread : pc'[u] \in {"bind_duplicate", "track"} =>
          /\ pc[u] \in {"bind_duplicate", "track"}
          /\ row'[u].group = row[u].group /\ row'[u].vec = row[u].vec
    BY Zenon, <1>11 DEF CheckStructure, Goto
  <2> QED BY Zenon, <2>1, <2>2
<1>12. ASSUME NEW t \in Thread, CheckPending(t) PROVE GroupInv'
  <2>1. vecs' = vecs /\ group' = group /\ total_count' = total_count
    BY Zenon, <1>12 DEF CheckPending
  <2>2. \A u \in Thread : pc'[u] \in {"bind_duplicate", "track"} =>
          /\ pc[u] \in {"bind_duplicate", "track"}
          /\ row'[u].group = row[u].group /\ row'[u].vec = row[u].vec
    BY Zenon, <1>12 DEF CheckPending, Goto
  <2> QED BY Zenon, <2>1, <2>2
<1>13. ASSUME NEW t \in Thread, AwaitResize(t) PROVE GroupInv'
  <2>1. vecs' = vecs /\ group' = group /\ total_count' = total_count
    BY Zenon, <1>13 DEF AwaitResize
  <2>2. \A u \in Thread : pc'[u] \in {"bind_duplicate", "track"} =>
          /\ pc[u] \in {"bind_duplicate", "track"}
          /\ row'[u].group = row[u].group /\ row'[u].vec = row[u].vec
    BY Zenon, <1>13 DEF AwaitResize, Goto
  <2> QED BY Zenon, <2>1, <2>2
<1>14. ASSUME NEW t \in Thread, ShareGlobal(t) PROVE GroupInv'
  <2>1. vecs' = vecs /\ group' = group /\ total_count' = total_count
    BY Zenon, <1>14 DEF ShareGlobal
  <2>2. \A u \in Thread : pc'[u] \in {"bind_duplicate", "track"} =>
          /\ pc[u] \in {"bind_duplicate", "track"}
          /\ row'[u].group = row[u].group /\ row'[u].vec = row[u].vec
    BY Zenon, <1>14 DEF ShareGlobal, Goto
  <2> QED BY Zenon, <2>1, <2>2
<1>15. ASSUME NEW t \in Thread, ProbeDuplicate(t) PROVE GroupInv'
  <2>1. PICK i \in Duplicates(t) : row' = [row EXCEPT ![t].group = i]
    BY Zenon, <1>15 DEF ProbeDuplicate
  <2>2. i \in bottom /\ ReadCode(t, i) \in {row[t].vec, None} /\ pc[t] = "probe"
    BY Zenon, <1>15, <2>1 DEF Duplicates, ProbeDuplicate
  <2>3. ~row[t].first
    BY Zenon, <2>2 DEF FirstInv
  <2>4. slot[i] # None /\ code[slot[i]] # None /\ code[slot[i]] = vecs[i]
    BY Zenon, <2>2 DEF SlotInv, BoundWhenVisible, CodeInv, FaithInv
  <2>5. vecs[i] = row[t].vec
    BY Zenon, <2>2, <2>3, <2>4 DEF ReadCode, StoredCode
  <2>6. i < total_count
    BY <2>2 DEF IdInv, IdsFresh, InnerId
  <2>7. vecs' = vecs /\ group' = group /\ total_count' = total_count
        /\ pc' = [pc EXCEPT ![t] = "bind_duplicate"]
    BY Zenon, <1>15 DEF ProbeDuplicate, Goto
  <2>8. row'[t].group = i /\ row'[t].vec = row[t].vec /\ \A u \in Thread \ {t} : row'[u] = row[u]
    BY <2>1 DEF Row
  <2> QED BY Zenon, <2>5, <2>6, <2>7, <2>8
<1>16. ASSUME NEW t \in Thread, ProbeUnique(t) PROVE GroupInv'
  <2>1. vecs' = vecs /\ group' = group /\ total_count' = total_count
    BY Zenon, <1>16 DEF ProbeUnique
  <2>2. \A u \in Thread : pc'[u] \in {"bind_duplicate", "track"} =>
          /\ pc[u] \in {"bind_duplicate", "track"}
          /\ row'[u].group = row[u].group /\ row'[u].vec = row[u].vec
    BY Zenon, <1>16 DEF ProbeUnique, Goto
  <2> QED BY Zenon, <2>1, <2>2
<1>17. ASSUME NEW t \in Thread, BindDuplicate(t) PROVE GroupInv'
  <2>1. vecs' = vecs /\ group' = group /\ total_count' = total_count
    BY Zenon, <1>17 DEF BindDuplicate
  <2>2. \A u \in Thread : pc'[u] \in {"bind_duplicate", "track"} =>
          /\ pc[u] \in {"bind_duplicate", "track"}
          /\ row'[u].group = row[u].group /\ row'[u].vec = row[u].vec
    BY Zenon, <1>17 DEF BindDuplicate, Goto
  <2> QED BY Zenon, <2>1, <2>2
<1>18. ASSUME NEW t \in Thread, TrackDuplicate(t) PROVE GroupInv'
  <2>1. group' = [group EXCEPT ![row[t].id] = group[row[t].group]] /\ vecs' = vecs /\ row' = row
        /\ total_count' = total_count /\ pc' = [pc EXCEPT ![t] = "idle"] /\ pc[t] = "track"
    BY Zenon, <1>18 DEF TrackDuplicate, GroupOf, Goto
  <2>2. row[t].vec = vecs[row[t].id] /\ row[t].id < total_count
    BY Zenon, <2>1 DEF IdInv, IdsOwned, Unclaimed
  <2>3. ~(row[t].id >= total_count)
    BY <2>2 DEF InnerId
  <2>4. group[row[t].group] < total_count /\ vecs[group[row[t].group]] = vecs[row[t].id]
    BY Zenon, <2>1, <2>2
  <2> QED BY Zenon, <2>1, <2>2, <2>3, <2>4
<1>19. ASSUME NEW t \in Thread, AllocateSlot(t) PROVE GroupInv'
  <2>1. vecs' = vecs /\ group' = group /\ total_count' = total_count
    BY Zenon, <1>19 DEF AllocateSlot
  <2>2. \A u \in Thread : pc'[u] \in {"bind_duplicate", "track"} =>
          /\ pc[u] \in {"bind_duplicate", "track"}
          /\ row'[u].group = row[u].group /\ row'[u].vec = row[u].vec
    BY Zenon, <1>19 DEF AllocateSlot, Goto, Row
  <2> QED BY Zenon, <2>1, <2>2
<1>20. ASSUME NEW t \in Thread, EnsureDone(t) PROVE GroupInv'
  <2>1. vecs' = vecs /\ group' = group /\ total_count' = total_count
    BY Zenon, <1>20 DEF EnsureDone
  <2>2. \A u \in Thread : pc'[u] \in {"bind_duplicate", "track"} =>
          /\ pc[u] \in {"bind_duplicate", "track"}
          /\ row'[u].group = row[u].group /\ row'[u].vec = row[u].vec
    BY Zenon, <1>20 DEF EnsureDone, Goto
  <2> QED BY Zenon, <2>1, <2>2
<1>21. ASSUME NEW t \in Thread, EnsurePending(t) PROVE GroupInv'
  <2>1. vecs' = vecs /\ group' = group /\ total_count' = total_count
    BY Zenon, <1>21 DEF EnsurePending
  <2>2. \A u \in Thread : pc'[u] \in {"bind_duplicate", "track"} =>
          /\ pc[u] \in {"bind_duplicate", "track"}
          /\ row'[u].group = row[u].group /\ row'[u].vec = row[u].vec
    BY Zenon, <1>21 DEF EnsurePending, Goto
  <2> QED BY Zenon, <2>1, <2>2
<1>22. ASSUME NEW t \in Thread, EnsureGrow(t) PROVE GroupInv'
  <2>1. vecs' = vecs /\ group' = group /\ total_count' = total_count
    BY Zenon, <1>22 DEF EnsureGrow
  <2>2. \A u \in Thread : pc'[u] \in {"bind_duplicate", "track"} =>
          /\ pc[u] \in {"bind_duplicate", "track"}
          /\ row'[u].group = row[u].group /\ row'[u].vec = row[u].vec
    BY Zenon, <1>22 DEF EnsureGrow, Goto
  <2> QED BY Zenon, <2>1, <2>2
<1>23. ASSUME NEW t \in Thread, Relock(t) PROVE GroupInv'
  <2>1. vecs' = vecs /\ group' = group /\ total_count' = total_count
    BY Zenon, <1>23 DEF Relock
  <2>2. \A u \in Thread : pc'[u] \in {"bind_duplicate", "track"} =>
          /\ pc[u] \in {"bind_duplicate", "track"}
          /\ row'[u].group = row[u].group /\ row'[u].vec = row[u].vec
    BY Zenon, <1>23 DEF Relock, Goto
  <2> QED BY Zenon, <2>1, <2>2
<1>24. ASSUME NEW t \in Thread, Store(t) PROVE GroupInv'
  <2>1. vecs' = vecs /\ group' = group /\ total_count' = total_count
    BY Zenon, <1>24 DEF Store
  <2>2. \A u \in Thread : pc'[u] \in {"bind_duplicate", "track"} =>
          /\ pc[u] \in {"bind_duplicate", "track"}
          /\ row'[u].group = row[u].group /\ row'[u].vec = row[u].vec
    BY Zenon, <1>24 DEF Store, Goto
  <2> QED BY Zenon, <2>1, <2>2
<1>25. ASSUME NEW t \in Thread, PublishSlot(t) PROVE GroupInv'
  <2>1. vecs' = vecs /\ group' = group /\ total_count' = total_count
    BY Zenon, <1>25 DEF PublishSlot
  <2>2. \A u \in Thread : pc'[u] \in {"bind_duplicate", "track"} =>
          /\ pc[u] \in {"bind_duplicate", "track"}
          /\ row'[u].group = row[u].group /\ row'[u].vec = row[u].vec
    BY Zenon, <1>25 DEF PublishSlot, Goto
  <2> QED BY Zenon, <2>1, <2>2
<1>26. ASSUME NEW t \in Thread, Link(t) PROVE GroupInv'
  <2>1. vecs' = vecs /\ group' = group /\ total_count' = total_count
    BY Zenon, <1>26 DEF Link
  <2>2. \A u \in Thread : pc'[u] \in {"bind_duplicate", "track"} =>
          /\ pc[u] \in {"bind_duplicate", "track"}
          /\ row'[u].group = row[u].group /\ row'[u].vec = row[u].vec
    BY Zenon, <1>26 DEF Link, Goto
  <2> QED BY Zenon, <2>1, <2>2
<1>27. ASSUME NEW t \in Thread, PublishAlone(t) PROVE GroupInv'
  <2>1. vecs' = vecs /\ group' = group /\ total_count' = total_count
    BY Zenon, <1>27 DEF PublishAlone
  <2>2. \A u \in Thread : pc'[u] \in {"bind_duplicate", "track"} =>
          /\ pc[u] \in {"bind_duplicate", "track"}
          /\ row'[u].group = row[u].group /\ row'[u].vec = row[u].vec
    BY Zenon, <1>27 DEF PublishAlone, Goto
  <2> QED BY Zenon, <2>1, <2>2
<1> QED
  BY Zenon, <1>1, <1>2, <1>3, <1>4, <1>5, <1>6, <1>7, <1>8, <1>9, <1>10, <1>11, <1>12, <1>13, <1>14,
     <1>15, <1>16, <1>17, <1>18, <1>19, <1>20, <1>21, <1>22, <1>23, <1>24, <1>25, <1>26, <1>27
        DEF Next, Step

-----------------------------------------------------------------------------
(* The inductive invariant. *)
IInv ==
  /\ TypeOK /\ LockInv /\ StructureInv /\ IdInv
  /\ Dedup => SlotInv /\ CodeInv /\ HeldInv
  /\ ~ConcurrentFirst => FirstInv
  /\ Dedup /\ ~ConcurrentFirst => FaithInv /\ GroupInv
  /\ ~Dedup /\ ~SupportForceRemove => PlainInv
  /\ ~SameLabel => LabelInv

(* Every reachable state of concurrent Adds satisfies the inductive invariant. *)
THEOREM Inductive == Spec => []IInv
<1>1. Init => IInv
  BY Zenon, TypeInit, LockInit, StructureInit, IdInit, SlotInit, CodeInit, HeldInit, FirstInit,
     FaithInit, GroupInit, PlainInit, LabelInit
  DEF IInv
<1>2. IInv /\ [Next]_vars => IInv'
  BY Zenon, TypeStep, LockStep, StructureStep, IdStep, SlotStep, CodeStep, HeldStep, FirstStep,
     FaithStep, GroupStep, PlainStep, LabelStep
  DEF IInv
<1> QED BY <1>1, <1>2, PTL DEF Spec

(* The shared state and what the threads carry keep their types. *)
THEOREM TypeCorrect == Spec => []TypeOK
<1>1. IInv => TypeOK
  BY Zenon DEF IInv
<1> QED BY <1>1, Inductive, PTL

(* Only the holder of add_mutex_ changes the top of the structure. *)
THEOREM StructureIsOwned == Spec => []StructureOwned
<1>1. IInv => StructureOwned
  BY Zenon DEF IInv, StructureInv, StructureOwned
<1> QED BY <1>1, Inductive, PTL

(* If no two concurrent callers add the same label, a label belongs to one element: *)
(* the lookup and the insertion are two critical sections and need no more.         *)
THEOREM LabelsAreUnique ==
  ASSUME ~SameLabel
  PROVE  Spec => []LabelsUnique
<1>1. IInv => LabelsUnique
  BY Zenon DEF IInv, LabelInv
<1> QED BY <1>1, Inductive, PTL

(* Unless the index supports force removal, every linked element has a written code   *)
(* inside the storage, whatever Adds and resizes run beside the search.             *)
THEOREM VisibleNodesAreReadable ==
  ASSUME ~SupportForceRemove
  PROVE  Spec => []VisibleNodesReadable
<1>1. IInv => VisibleNodesReadable
  <2> SUFFICES ASSUME IInv, NEW i \in bottom
               PROVE  StoredCode(i) # None /\ (IF Dedup THEN slot[i] ELSE i) < capacity
    BY Zenon DEF VisibleNodesReadable
  <2>1. i \in InnerId
    BY Zenon DEF IInv, TypeOK
  <2>2. CASE Dedup
    BY Zenon, <2>1, <2>2 DEF IInv, SlotInv, BoundWhenVisible, SlotsBelow, CodeInv, StoredCode
  <2>3. CASE ~Dedup
    <3>1. code[i] # None /\ capacity = max_capacity
      BY Zenon, <2>3, NoneIsNoValue DEF IInv, PlainInv
    <3>2. i < total_count /\ total_count <= max_capacity
      BY <2>1 DEF IInv, TypeOK, LockInv, IdInv, IdsFresh, InnerId
    <3>3. i \in Int /\ total_count \in Int /\ max_capacity \in Int
      BY <2>1 DEF IInv, TypeOK, InnerId
    <3> QED BY <2>3, <3>1, <3>2, <3>3 DEF StoredCode
  <2> QED BY Zenon, <2>2, <2>3
<1> QED BY <1>1, Inductive, PTL

(* Unless the index supports force removal, no code is written beyond the storage or   *)
(* into storage that was reallocated since the writer looked.                       *)
THEOREM WritesStayInside ==
  ASSUME ~SupportForceRemove
  PROVE  Spec => []WritesInside
<1>1. IInv => WritesInside
  <2> SUFFICES ASSUME IInv, NEW t \in Thread
               PROVE  /\ pc[t] = "store" => t \in global_sharers /\ row[t].slot < capacity
                      /\ pc[t] = "writing" => row[t].id < capacity /\ row[t].reallocs = reallocs
    BY Zenon DEF WritesInside
  <2>1. CASE pc[t] = "store"
    BY Zenon, <2>1 DEF IInv, LockInv, Sharing, Slotted, SlotInv, SlotsCarried
  <2>2. CASE pc[t] = "writing"
    <3>1. ~Dedup /\ capacity = max_capacity /\ row[t].reallocs = reallocs
      BY Zenon, <2>2 DEF IInv, LockInv, PlainInv
    <3>2. row[t].id < total_count /\ total_count <= max_capacity
      BY Zenon, <2>2 DEF IInv, LockInv, IdInv, IdsOwned, Unclaimed
    <3>3. row[t].id \in Int /\ total_count \in Int /\ max_capacity \in Int
      BY DEF IInv, TypeOK, Row, InnerId
    <3> QED BY <2>2, <3>1, <3>2, <3>3
  <2> QED BY Zenon, <2>1, <2>2
<1> QED BY <1>1, Inductive, PTL

(* If the first Add runs alone, deduplicated storage gives every element the vector it *)
(* was added with, although slots are allocated, grown and shared concurrently.      *)
THEOREM CodesAreFaithful ==
  ASSUME Dedup, ~ConcurrentFirst
  PROVE  Spec => []CodesFaithful
<1>1. IInv => CodesFaithful
  BY Zenon DEF IInv, FaithInv, CodesFaithful, StoredCode
<1> QED BY <1>1, Inductive, PTL

(* If the first Add runs alone, a construction search finds a code for every node it    *)
(* can meet, in the temporary codes of the first Add or in the stored ones.            *)
THEOREM ProbesReadWritten ==
  ASSUME ~ConcurrentFirst, ~SupportForceRemove
  PROVE  Spec => []ProbeReadsWritten
<1>1. IInv => ProbeReadsWritten
  <2> SUFFICES ASSUME IInv, NEW t \in Thread, pc[t] = "probe", NEW i \in bottom
               PROVE  ReadCode(t, i) # None
    BY Zenon DEF ProbeReadsWritten
  <2>1. ~row[t].first
    BY Zenon DEF IInv, FirstInv
  <2>2. CASE Dedup
    BY Zenon, <2>1, <2>2
    DEF IInv, TypeOK, SlotInv, BoundWhenVisible, CodeInv, ReadCode, StoredCode
  <2>3. CASE ~Dedup
    BY Zenon, <2>3, NoneIsNoValue DEF IInv, PlainInv, ReadCode, StoredCode
  <2> QED BY Zenon, <2>2, <2>3
<1> QED BY <1>1, Inductive, PTL

(* Deduplicated storage never runs out of slots, and elements that share a slot through  *)
(* their group have the same vector, if the first Add runs alone.                       *)
THEOREM StorageStaysConsistent ==
  ASSUME Dedup, ~ConcurrentFirst
  PROVE  Spec => []StorageIsConsistent
<1>1. IInv => StorageIsConsistent
  <2> SUFFICES ASSUME IInv PROVE SlotsSuffice /\ GroupsShareVector
    BY Zenon DEF StorageIsConsistent
  <2>1. SlotsSuffice
    BY Zenon, HeldSlotsAreFew DEF IInv, SlotsSuffice, LockInv
  <2>2. GroupsShareVector
    BY Zenon DEF IInv, GroupInv, GroupsShareVector
  <2> QED BY Zenon, <2>1, <2>2
<1> QED BY <1>1, Inductive, PTL

=============================================================================
