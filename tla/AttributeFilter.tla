--------------------------- MODULE AttributeFilter ---------------------------
(***************************************************************************)
(* Attribute filters: the inverted index over attribute values                *)
(* (datacell/attribute_bucket_inverted_datacell, attr/attr_value_map,          *)
(* attr/multi_bitset_manager), the two bitsets under it (impl/bitset) and the  *)
(* executors that evaluate a filter expression bucket by bucket                *)
(* (attr/executor, impl/filter).  A search makes one executor tree, and for    *)
(* each bucket it scans clears the tree and runs it again.                    *)
(*                                                                         *)
(* A bitset word has WordBits bits and a bitset index IndexBits bits: 64 and   *)
(* 16 in the code.                                                         *)
(***************************************************************************)
EXTENDS Integers, FiniteSets, Sequences, SequencesExt

CONSTANTS Field, Value,     \* attribute fields, and the values each may hold
          AttrBucket,       \* bucket ids, from 0
          MaxOffset,        \* the largest offset in a bucket
          Exprs,            \* the filter expressions of searches
          WordBits, IndexBits,
          MaxUpdates        \* a bound on attribute updates

VARIABLES bitset_type,        \* bitset_type_, fixed when the index is created
          field_2_value_map,  \* per field and value: a MultiBitsetManager
          executor,           \* the executor tree of the running search, or NoSearch
          given_attrs,              \* history: the attributes callers gave, per bucket and offset
          updates             \* how many updates were made

attrVars == <<bitset_type, field_2_value_map, executor, given_attrs, updates>>

AttributeSets == [Field -> SUBSET Value]

Places == AttrBucket \X (0 .. MaxOffset)

-----------------------------------------------------------------------------
(* FastBitset: size words of data (the positions set), and fill_bit for every   *)
(* position behind them.  resize drops the words behind a smaller size and      *)
(* fills the new ones of a larger size.  A SparseBitset is the same record with *)
(* no words and no fill bit: data are the members of its roaring bitmap.        *)
EmptyBitset == [fill_bit |-> FALSE, size |-> 0, data |-> {}]

Positions(first, last) == first * WordBits .. last * WordBits - 1

resize_words(bits, size, fill) ==
  [bits EXCEPT !.size = size,
               !.data = (@ \cap Positions(0, size))
                        \cup (IF fill THEN Positions(bits.size, size) ELSE {})]

Put(bits, pos, value) ==
  [bits EXCEPT !.data = IF value THEN @ \cup {pos} ELSE @ \ {pos}]

Set(bits, pos, value) ==
  IF bitset_type = "fast" /\ pos >= bits.size * WordBits
  THEN Put(resize_words(bits, (pos \div WordBits) + 1, bits.fill_bit), pos, value)
  ELSE Put(bits, pos, value)

Test(bits, pos) ==
  IF bitset_type = "fast" /\ pos >= bits.size * WordBits THEN bits.fill_bit
                                                         ELSE pos \in bits.data

(* An Or that keeps the words behind the other side's when that is full there. *)
OrKeepingFill(a, b) ==
  IF a.size >= b.size THEN [a EXCEPT !.data = @ \cup b.data]
  ELSE [resize_words(a, b.size, a.fill_bit) EXCEPT !.data = @ \cup b.data]

FastOr(a, b) ==
  IF b.size = 0
  THEN IF b.fill_bit THEN [EmptyBitset EXCEPT !.fill_bit = TRUE] ELSE a
  ELSE IF a.size >= b.size
  THEN LET or == [a EXCEPT !.data = @ \cup b.data]
       IN  IF b.fill_bit THEN [resize_words(or, b.size, FALSE) EXCEPT !.fill_bit = TRUE] ELSE or
  ELSE IF a.fill_bit
  THEN [a EXCEPT !.data = @ \cup (b.data \cap Positions(0, a.size))]
  ELSE [resize_words(a, b.size, FALSE) EXCEPT !.fill_bit = b.fill_bit, !.data = @ \cup b.data]

FastAnd(a, b) ==
  IF b.size = 0
  THEN IF b.fill_bit THEN a ELSE EmptyBitset
  ELSE LET wide == IF a.size >= b.size THEN a ELSE resize_words(a, b.size, a.fill_bit)
           kept == b.data \cup (IF b.fill_bit THEN Positions(b.size, wide.size) ELSE {})
       IN  [wide EXCEPT !.data = @ \cap kept, !.fill_bit = @ /\ b.fill_bit]

Or(a, b) ==
  IF bitset_type = "fast" THEN FastOr(a, b) ELSE [a EXCEPT !.data = @ \cup b.data]

And(a, b) ==
  IF bitset_type = "fast" THEN FastAnd(a, b) ELSE [a EXCEPT !.data = @ \cap b.data]

Not(bits) ==
  [bits EXCEPT !.data = Positions(0, bits.size) \ @, !.fill_bit = ~@]

-----------------------------------------------------------------------------
(* MultiBitsetManager: bitset_map_ leads from a bucket to its bitset, -1 for     *)
(* none.  The index of a new bitset is cut to a signed IndexBits-bit number.    *)
EmptyManager == [bitset_map |-> <<>>, bitsets |-> <<>>]

Cut(n) == LET half == 2 ^ (IndexBits - 1) IN ((n + half) % (2 * half)) - half

SetNewCount(mgr, count) ==
  [mgr EXCEPT !.bitset_map =
     @ \o [i \in 1 .. (IF count > Len(@) THEN count - Len(@) ELSE 0) |-> -1]]

HasBitset(mgr, b) == b < Len(mgr.bitset_map) /\ mgr.bitset_map[b + 1] # -1

GetOneBitset(mgr, b) == mgr.bitsets[mgr.bitset_map[b + 1] + 1]

PutBit(mgr, b, offset, value) ==
  [mgr EXCEPT !.bitsets[mgr.bitset_map[b + 1] + 1] = Set(@, offset, value)]

InsertValue(mgr, b, offset) ==
  LET wide == SetNewCount(mgr, b + 1)
      made == IF HasBitset(wide, b) THEN wide
              ELSE [bitset_map |-> [wide.bitset_map EXCEPT ![b + 1] = Cut(Len(mgr.bitsets))],
                    bitsets |-> Append(mgr.bitsets, EmptyBitset)]
  IN  PutBit(made, b, offset, TRUE)

(* AttrValueMap::Erase of every value, and of the listed ones. *)
EraseAll(values, b, offset) ==
  [v \in Value |-> IF HasBitset(values[v], b) THEN PutBit(values[v], b, offset, FALSE)
                                              ELSE values[v]]

EraseListed(values, listed, b, offset) ==
  [v \in Value |-> IF v \in listed /\ HasBitset(values[v], b)
                   THEN PutBit(values[v], b, offset, FALSE) ELSE values[v]]

InsertListed(values, listed, b, offset) ==
  [v \in Value |-> IF v \in listed THEN InsertValue(values[v], b, offset) ELSE values[v]]

(* GetAttribute: the values whose bitset has the offset. *)
GetAttribute(b, offset) ==
  [f \in Field |-> {v \in Value : /\ HasBitset(field_2_value_map[f][v], b)
                                  /\ Test(GetOneBitset(field_2_value_map[f][v], b), offset)}]

-----------------------------------------------------------------------------
(* The executors.  A tree has leaves (a field compared with a list of values,    *)
(* numbered: a leaf owns the bitset of its number) and AND and OR nodes.  A node  *)
(* whose two sides are pure bitsets works in the bitset of its left side; any     *)
(* other node asks the filters of its sides, id by id.                          *)
RECURSIVE Leaves(_)

Leaves(e) == IF e.op = "list" THEN {e} ELSE Leaves(e.left) \cup Leaves(e.right)

NoSearch == [expr |-> "none", bitsets |-> <<>>, filter |-> "none", bucket |-> -1]

(* Init: one empty bitset per leaf. *)
MakeExecutor(e) ==
  [expr |-> e, bitsets |-> [n \in {l.leaf : l \in Leaves(e)} |-> EmptyBitset],
   filter |-> "none", bucket |-> -1]

(* Clear reaches both sides of every node. *)
ClearExecutor(bitsets) == [n \in DOMAIN bitsets |-> EmptyBitset]

(* The union of the bucket's bitsets of the listed values. *)
Union(e, b) ==
  LET managers == [v \in e.values |-> field_2_value_map[e.field][v]]
  IN  FoldLeft(LAMBDA acc, v : IF HasBitset(managers[v], b)
                               THEN Or(acc, GetOneBitset(managers[v], b)) ELSE acc,
               EmptyBitset, SetToSeq(e.values))

RunLeaf(bitsets, e, b) ==
  LET found == Or(bitsets[e.leaf], Union(e, b))
      flip  == e.negated /\ bitset_type = "fast"
  IN  [bitsets |-> [bitsets EXCEPT ![e.leaf] = IF flip THEN Not(found) ELSE found],
       only_bitset |-> flip \/ ~e.negated,
       bitset |-> e.leaf,
       filter |-> [kind |-> IF e.negated /\ ~flip THEN "black" ELSE "white", leaf |-> e.leaf]]

logical_run(e, l, r) ==
  LET both == l.only_bitset /\ r.only_bitset
      a    == r.bitsets[l.bitset]
      b    == r.bitsets[r.bitset]
  IN  [bitsets |-> IF ~both THEN r.bitsets
                   ELSE [r.bitsets EXCEPT ![l.bitset] = IF e.op = "and" THEN And(a, b)
                                                                       ELSE Or(a, b)],
       only_bitset |-> both,
       bitset |-> l.bitset,
       filter |-> IF both THEN [kind |-> "white", leaf |-> l.bitset]
                          ELSE [kind |-> e.op, left |-> l.filter, right |-> r.filter]]

RECURSIVE RunTree(_, _, _)

RunTree(bitsets, e, b) ==
  IF e.op = "list" THEN RunLeaf(bitsets, e, b)
  ELSE LET l == RunTree(bitsets, e.left, b)
           r == RunTree(l.bitsets, e.right, b)
       IN  logical_run(e, l, r)

RECURSIVE CheckValid(_, _, _)

CheckValid(filter, bitsets, id) ==
  CASE filter.kind = "white" -> Test(bitsets[filter.leaf], id)
    [] filter.kind = "black" -> ~Test(bitsets[filter.leaf], id)
    [] filter.kind = "and" -> /\ CheckValid(filter.left, bitsets, id)
                              /\ CheckValid(filter.right, bitsets, id)
    [] filter.kind = "or" -> \/ CheckValid(filter.left, bitsets, id)
                             \/ CheckValid(filter.right, bitsets, id)

-----------------------------------------------------------------------------
AttrInit ==
  /\ bitset_type \in {"fast", "sparse"}
  /\ field_2_value_map = [f \in Field |-> [v \in Value |-> EmptyManager]]
  /\ executor = NoSearch
  /\ given_attrs = <<>>
  /\ updates = 0

(* Insert, of an offset that holds nothing yet. *)
AttrInsert(p, a) ==
  /\ executor = NoSearch
  /\ p \notin DOMAIN given_attrs
  /\ field_2_value_map' =
       [f \in Field |-> InsertListed(field_2_value_map[f], a[f], p[1], p[2])]
  /\ given_attrs' = [q \in DOMAIN given_attrs \cup {p} |-> IF q = p THEN a ELSE given_attrs[q]]
  /\ UNCHANGED <<bitset_type, executor, updates>>

(* UpdateBitsetsByAttr: replaces the fields named in the new attributes, and keeps *)
(* the others.  A field with no values is not named.                             *)
UpdateByAttr(p, a) ==
  LET named == {f \in Field : a[f] # {}}
      erased(f) == EraseAll(field_2_value_map[f], p[1], p[2])
  IN  /\ executor = NoSearch
      /\ updates < MaxUpdates
      /\ p \in DOMAIN given_attrs
      /\ field_2_value_map' =
           [f \in Field |-> IF f \in named THEN InsertListed(erased(f), a[f], p[1], p[2])
                                           ELSE field_2_value_map[f]]
      /\ given_attrs' = [given_attrs EXCEPT ![p] = [f \in Field |-> IF f \in named THEN a[f] ELSE @[f]]]
      /\ updates' = updates + 1
      /\ UNCHANGED <<bitset_type, executor>>

(* UpdateBitsetsByAttr with the attributes the caller says the element has: only   *)
(* those values are erased.  Callers say the truth.                              *)
UpdateFromOrigin(p, a) ==
  LET erased(f) == EraseListed(field_2_value_map[f], given_attrs[p][f], p[1], p[2])
  IN  /\ executor = NoSearch
      /\ updates < MaxUpdates
      /\ p \in DOMAIN given_attrs
      /\ field_2_value_map' = [f \in Field |-> InsertListed(erased(f), a[f], p[1], p[2])]
      /\ given_attrs' = [given_attrs EXCEPT ![p] = a]
      /\ updates' = updates + 1
      /\ UNCHANGED <<bitset_type, executor>>

(* A search makes its executors, clears and runs them on one bucket after another, *)
(* and drops them.                                                            *)
StartSearch(e) ==
  /\ executor = NoSearch
  /\ executor' = MakeExecutor(e)
  /\ UNCHANGED <<bitset_type, field_2_value_map, given_attrs, updates>>

RunBucket(b) ==
  LET run == RunTree(ClearExecutor(executor.bitsets), executor.expr, b)
  IN  /\ executor # NoSearch
      /\ executor.bucket # b
      /\ executor' = [executor EXCEPT !.bitsets = run.bitsets, !.filter = run.filter,
                                      !.bucket = b]
      /\ UNCHANGED <<bitset_type, field_2_value_map, given_attrs, updates>>

EndSearch ==
  /\ executor # NoSearch
  /\ executor' = NoSearch
  /\ UNCHANGED <<bitset_type, field_2_value_map, given_attrs, updates>>

AttrNext ==
  \/ \E p \in Places, a \in AttributeSets :
       AttrInsert(p, a) \/ UpdateByAttr(p, a) \/ UpdateFromOrigin(p, a)
  \/ \E e \in Exprs : StartSearch(e)
  \/ \E b \in AttrBucket : RunBucket(b)
  \/ EndSearch

AttrSpec == AttrInit /\ [][AttrNext]_attrVars

-----------------------------------------------------------------------------
(* What an expression says of an element: a list matches when one of the field's   *)
(* values is in it.                                                           *)
RECURSIVE Meaning(_, _)

Meaning(e, a) ==
  CASE e.op = "list" -> e.negated # (a[e.field] \cap e.values # {})
    [] e.op = "and" -> Meaning(e.left, a) /\ Meaning(e.right, a)
    [] e.op = "or" -> Meaning(e.left, a) \/ Meaning(e.right, a)

(* The filter a search runs on a bucket admits exactly the elements of the bucket  *)
(* whose attributes satisfy the expression, whatever buckets it ran on before,      *)
(* whichever bitset is used, and however long each value's bitset is.             *)
FilterMeansItsExpression ==
  executor.bucket # -1 =>
    \A p \in DOMAIN given_attrs :
      p[1] = executor.bucket =>
        (CheckValid(executor.filter, executor.bitsets, p[2])
           <=> Meaning(executor.expr, given_attrs[p]))

(* GetAttribute gives back the attributes of every element as they were last set,   *)
(* after any sequence of insertions and of updates of either kind.                *)
IndexHoldsGivenAttributes ==
  \A p \in DOMAIN given_attrs : GetAttribute(p[1], p[2]) = given_attrs[p]

(* The attribute index holds what it was given, and a filter means its expression.        *)
AttributesAreAnswered == IndexHoldsGivenAttributes /\ FilterMeansItsExpression

=============================================================================
