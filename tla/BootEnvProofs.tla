---------------------------- MODULE BootEnvProofs ----------------------------
(***************************************************************************)
(* Proofs about the boot environment BootEnv, for every set of variables   *)
(* and values, every size of the sector and any number of power failures.  *)
(*                                                                         *)
(* Shape is inductive for every history, Intact for what happens before    *)
(* the first power failure.  From both of them it follows that the log     *)
(* implements the map of EnvStore.                                         *)
(***************************************************************************)
EXTENDS BootEnv, SearchProofs, SequenceTheorems

\* The parts of Shape that speak of the log, for any log.
Good(l) ==
    /\ l \in Seq(Block)
    /\ \A i \in DOMAIN l : l[i].at = IF i = 1 THEN 0 ELSE l[i - 1].at + l[i - 1].cells
    /\ \A i \in DOMAIN l : l[i].stage # "num" => l[i].at + l[i].cells <= SpaceCells
    /\ \A i, j \in DOMAIN l : i < j => l[i].at + l[i].cells <= l[j].at
    /\ \A i \in DOMAIN l : l[i].stage # "num" => l[i].cells = Cells(l[i].key, l[i].val)
    /\ \A i \in DOMAIN l : l[i].perm => l[i].key \in Permanent

\* Blocks that differ in the garbage bit only.
SameBlock(b, c) ==
    /\ c.key = b.key /\ c.val = b.val /\ c.stage = b.stage
    /\ c.perm = b.perm /\ c.at = b.at /\ c.cells = b.cells

-----------------------------------------------------------------------------
(* Logs. *)

\* The sizes of blocks are positive numbers.
LEMMA CellsPositive ==
    ASSUME NEW k \in Keys, NEW v \in Values
    PROVE  Cells(k, v) \in Nat /\ Cells(k, v) > 0
<1>1. <<k, v>> \in Keys \X Values
  OBVIOUS
<1>2. CellsOf[<<k, v>>] \in Nat \ {0}
  BY <1>1, EnvAssumption
<1> QED BY <1>2 DEF Cells

\* The fields of a block.
LEMMA BlockFields ==
    ASSUME NEW l \in Seq(Block)
    PROVE  /\ Len(l) \in Nat /\ DOMAIN l = 1 .. Len(l)
           /\ \A i \in DOMAIN l :
                 /\ l[i] \in Block
                 /\ l[i].key \in Keys /\ l[i].val \in Values /\ l[i].stage \in Stages
                 /\ l[i].garbage \in BOOLEAN /\ l[i].perm \in BOOLEAN
                 /\ l[i].at \in Nat /\ l[i].cells \in Nat /\ l[i].cells > 0
<1>1. l \in [1 .. Len(l) -> Block] /\ Len(l) \in Nat /\ DOMAIN l = 1 .. Len(l)
  BY LenProperties
<1>2. \A i \in DOMAIN l : l[i] \in Block
  BY <1>1
<1> QED BY <1>1, <1>2 DEF Block

\* One block of a log is replaced.
LEMMA Replaced ==
    ASSUME NEW l \in Seq(Block), NEW i \in DOMAIN l, NEW b \in Block
    PROVE  LET n == [l EXCEPT ![i] = b]
           IN  /\ n \in Seq(Block) /\ Len(n) = Len(l) /\ DOMAIN n = DOMAIN l
               /\ n[i] = b /\ \A j \in DOMAIN l : j # i => n[j] = l[j]
<1>1. i \in 1 .. Len(l) /\ l \in [1 .. Len(l) -> Block] /\ DOMAIN l = 1 .. Len(l)
  BY LenProperties
<1>2. [l EXCEPT ![i] = b] \in Seq(Block) /\ Len([l EXCEPT ![i] = b]) = Len(l)
  BY <1>1, ExceptSeq
<1> QED BY <1>1, <1>2

\* The mark on a block changes nothing else.
LEMMA Marked ==
    ASSUME NEW l \in Seq(Block), NEW i \in DOMAIN l
    PROVE  LET n == EnvMakeGarbage(l, i)
           IN  /\ n \in Seq(Block) /\ Len(n) = Len(l) /\ DOMAIN n = DOMAIN l
               /\ n[i].garbage /\ \A j \in DOMAIN l : j # i => n[j] = l[j]
               /\ \A j \in DOMAIN l : SameBlock(l[j], n[j])
<1> DEFINE b == [l[i] EXCEPT !.garbage = TRUE]
<1>1. l[i] \in Block
  BY BlockFields
<1>2. b \in Block /\ b.garbage /\ SameBlock(l[i], b)
  BY <1>1 DEF Block, SameBlock
<1>3. EnvMakeGarbage(l, i) = [l EXCEPT ![i] = b]
  BY DEF EnvMakeGarbage
<1> HIDE DEF b
<1>4. \A j \in DOMAIN l : SameBlock(l[j], l[j])
  BY DEF SameBlock
<1> QED BY <1>2, <1>3, <1>4, Replaced

\* A log with other garbage bits has the same shape.
LEMMA SameGood ==
    ASSUME NEW l, Good(l), NEW n \in Seq(Block), DOMAIN n = DOMAIN l,
           \A j \in DOMAIN l : SameBlock(l[j], n[j])
    PROVE  Good(n)
<1>1. DOMAIN l = 1 .. Len(l) /\ Len(l) \in Nat
  BY BlockFields DEF Good
<1>2. \A i \in DOMAIN l : i # 1 => i - 1 \in DOMAIN l
  BY <1>1
<1> QED BY <1>1, <1>2 DEF Good, SameBlock

\* Making a block garbage leaves a good log good.
LEMMA MarkedGood ==
    ASSUME NEW l, Good(l), NEW i \in DOMAIN l
    PROVE  Good(EnvMakeGarbage(l, i))
<1>1. l \in Seq(Block)
  BY DEF Good
<1> QED BY <1>1, Marked, SameGood

\* The search for a variable returns 0 or the first live block that matches.
LEMMA Found ==
    ASSUME NEW l \in Seq(Block), NEW k
    PROVE  LET i == GetEnvBlockByName(l, k)
           IN  /\ i = 0 => \A j \in DOMAIN l : l[j].garbage \/ ~Matches(k, l[j])
               /\ i # 0 => /\ i \in DOMAIN l /\ ~l[i].garbage /\ Matches(k, l[i])
                           /\ \A j \in DOMAIN l :
                                 ~l[j].garbage /\ Matches(k, l[j]) => i <= j
<1> DEFINE I == {i \in DOMAIN l : ~l[i].garbage /\ Matches(k, l[i])}
<1>1. I \in SUBSET (Nat \ {0})
  BY BlockFields
<1>2. GetEnvBlockByName(l, k) = First(I)
  BY DEF GetEnvBlockByName
<1>3. /\ I = {} => First(I) = 0
      /\ I # {} => First(I) \in I /\ \A j \in I : First(I) <= j
  BY <1>1, FirstIsLeast
<1>4. 0 \notin I
  BY <1>1
<1>5. First(I) = 0 => I = {}
  BY <1>3, <1>4
<1> QED BY <1>2, <1>3, <1>5

\* The free space begins after every block.
LEMMA EndIsLast ==
    ASSUME NEW l, Good(l)
    PROVE  /\ End(l) \in Nat
           /\ \A i \in DOMAIN l : l[i].at + l[i].cells <= End(l)
           /\ l = <<>> => End(l) = 0
           /\ l # <<>> => Len(l) \in DOMAIN l /\ End(l) = l[Len(l)].at + l[Len(l)].cells
<1>1. l \in Seq(Block)
  BY DEF Good
<1>2. DOMAIN l = 1 .. Len(l) /\ Len(l) \in Nat
      /\ \A i \in DOMAIN l : l[i].at \in Nat /\ l[i].cells \in Nat
  BY <1>1, BlockFields
<1>3. CASE l = <<>>
  BY <1>2, <1>3 DEF End
<1>4. CASE l # <<>>
  <2>1. Len(l) \in DOMAIN l
    BY <1>1, <1>2, <1>4, EmptySeq
  <2>2. End(l) = l[Len(l)].at + l[Len(l)].cells
    BY <1>4 DEF End
  <2>3. ASSUME NEW i \in DOMAIN l PROVE l[i].at + l[i].cells <= End(l)
    <3>1. CASE i = Len(l)
      BY <1>2, <2>1, <2>2, <3>1
    <3>2. CASE i < Len(l)
      <4>1. l[i].at + l[i].cells <= l[Len(l)].at
        BY <2>1, <3>2 DEF Good
      <4> QED BY <1>2, <2>1, <2>2, <4>1
    <3> QED BY <1>2, <3>1, <3>2
  <2> QED BY <1>2, <1>4, <2>1, <2>2, <2>3
<1> QED BY <1>3, <1>4

NewBlock(l, k, v) ==
    [key |-> k, val |-> v, stage |-> "num", garbage |-> FALSE,
     perm |-> FALSE, at |-> End(l), cells |-> TornCells]

\* A block that is begun leaves the shape as it is.
LEMMA AppendGood ==
    ASSUME NEW l, Good(l), NEW k \in Keys, NEW v \in Values
    PROVE  LET n == Append(l, NewBlock(l, k, v))
           IN  /\ Good(n) /\ Len(n) = Len(l) + 1 /\ DOMAIN n = 1 .. Len(l) + 1
               /\ \A i \in DOMAIN l : n[i] = l[i]
               /\ n[Len(n)] = NewBlock(l, k, v) /\ n # <<>>
<1> DEFINE b == NewBlock(l, k, v)
           n == Append(l, b)
<1>1. l \in Seq(Block)
  BY DEF Good
<1>2. DOMAIN l = 1 .. Len(l) /\ Len(l) \in Nat
      /\ \A i \in DOMAIN l : l[i].at \in Nat /\ l[i].cells \in Nat
  BY <1>1, BlockFields
<1>3. TornCells \in Nat \ {0}
  BY EnvAssumption
<1>4. /\ b \in Block /\ b.at = End(l) /\ b.stage = "num" /\ ~b.perm
      /\ b.cells = TornCells
  BY <1>3, EndIsLast DEF NewBlock, Block, Stages
<1> HIDE DEF b
<1>5. /\ n \in Seq(Block) /\ Len(n) = Len(l) + 1 /\ DOMAIN n = 1 .. Len(l) + 1
      /\ \A i \in 1 .. Len(l) : n[i] = l[i]
      /\ n[Len(l) + 1] = b
  BY <1>1, <1>4, AppendProperties, LenProperties
<1>6. n # <<>>
  BY <1>2, <1>5
<1> HIDE DEF n
<1>7. \A i \in DOMAIN n : n[i].at = IF i = 1 THEN 0 ELSE n[i - 1].at + n[i - 1].cells
  <2> TAKE i \in DOMAIN n
  <2>1. CASE i \in DOMAIN l
    <3>1. l[i].at = IF i = 1 THEN 0 ELSE l[i - 1].at + l[i - 1].cells
      BY <2>1 DEF Good
    <3>2. i # 1 => i - 1 \in 1 .. Len(l)
      BY <1>2, <2>1
    <3> QED BY <1>2, <1>5, <2>1, <3>1, <3>2
  <2>2. CASE i = Len(l) + 1
    <3>1. CASE l = <<>>
      <4>1. Len(l) = 0
        BY <1>1, <3>1, EmptySeq
      <4> QED BY <1>4, <1>5, <2>2, <3>1, <4>1, EndIsLast
    <3>2. CASE l # <<>>
      <4>1. Len(l) \in DOMAIN l /\ End(l) = l[Len(l)].at + l[Len(l)].cells
        BY <3>2, EndIsLast
      <4> QED BY <1>2, <1>4, <1>5, <2>2, <4>1
    <3> QED BY <3>1, <3>2
  <2> QED BY <1>2, <1>5, <2>1, <2>2
<1>8. \A i \in DOMAIN n : n[i].stage # "num" =>
         n[i].at + n[i].cells <= SpaceCells /\ n[i].cells = Cells(n[i].key, n[i].val)
  BY <1>2, <1>4, <1>5 DEF Good
<1>9. \A i, j \in DOMAIN n : i < j => n[i].at + n[i].cells <= n[j].at
  <2> SUFFICES ASSUME NEW i \in DOMAIN n, NEW j \in DOMAIN n, i < j
               PROVE  n[i].at + n[i].cells <= n[j].at
    OBVIOUS
  <2>1. i \in DOMAIN l /\ n[i] = l[i]
    BY <1>2, <1>5
  <2>2. CASE j \in DOMAIN l
    BY <1>2, <1>5, <2>1, <2>2 DEF Good
  <2>3. CASE j = Len(l) + 1
    BY <1>4, <1>5, <2>1, <2>3, EndIsLast
  <2> QED BY <1>2, <1>5, <2>2, <2>3
<1>10. \A i \in DOMAIN n : n[i].perm => n[i].key \in Permanent
  BY <1>2, <1>4, <1>5 DEF Good
<1>11. Good(n)
  BY <1>5, <1>7, <1>8, <1>9, <1>10 DEF Good
<1> QED BY <1>2, <1>5, <1>6, <1>11 DEF b, n

\* The last block is replaced by one of the same variable at the same place.
LEMMA LastGood ==
    ASSUME NEW l, Good(l), l # <<>>, NEW b \in Block,
           b.at = l[Len(l)].at, b.perm = l[Len(l)].perm, b.key = l[Len(l)].key,
           b.stage # "num" => /\ b.at + b.cells <= SpaceCells
                              /\ b.cells = Cells(b.key, b.val)
    PROVE  LET n == [l EXCEPT ![Len(l)] = b]
           IN  /\ Good(n) /\ Len(n) = Len(l) /\ DOMAIN n = DOMAIN l /\ n # <<>>
               /\ n[Len(l)] = b /\ \A j \in DOMAIN l : j # Len(l) => n[j] = l[j]
<1> DEFINE n == [l EXCEPT ![Len(l)] = b]
<1>1. l \in Seq(Block)
  BY DEF Good
<1>2. DOMAIN l = 1 .. Len(l) /\ Len(l) \in Nat
  BY <1>1, BlockFields
<1>3. Len(l) \in DOMAIN l
  BY EndIsLast
<1>4. /\ n \in Seq(Block) /\ Len(n) = Len(l) /\ DOMAIN n = DOMAIN l
      /\ n[Len(l)] = b /\ \A j \in DOMAIN l : j # Len(l) => n[j] = l[j]
  BY <1>1, <1>3, Replaced
<1>5. n # <<>>
  BY <1>1, <1>3, <1>4
<1> HIDE DEF n
<1>6. \A i \in DOMAIN n : n[i].at = l[i].at /\ n[i].perm = l[i].perm /\ n[i].key = l[i].key
  BY <1>4
<1>7. \A i \in DOMAIN n : n[i].at = IF i = 1 THEN 0 ELSE n[i - 1].at + n[i - 1].cells
  <2> TAKE i \in DOMAIN n
  <2>1. i # 1 => i - 1 \in DOMAIN l /\ n[i - 1] = l[i - 1]
    BY <1>2, <1>4
  <2> QED BY <1>4, <1>6, <2>1 DEF Good
<1>8. \A i \in DOMAIN n : n[i].stage # "num" =>
         n[i].at + n[i].cells <= SpaceCells /\ n[i].cells = Cells(n[i].key, n[i].val)
  BY <1>4 DEF Good
<1>9. \A i, j \in DOMAIN n : i < j => n[i].at + n[i].cells <= n[j].at
  <2> SUFFICES ASSUME NEW i \in DOMAIN n, NEW j \in DOMAIN n, i < j
               PROVE  n[i].at + n[i].cells <= n[j].at
    OBVIOUS
  <2>1. n[i] = l[i] /\ n[j].at = l[j].at
    BY <1>2, <1>4, <1>6
  <2> QED BY <1>4, <2>1 DEF Good
<1>10. \A i \in DOMAIN n : n[i].perm => n[i].key \in Permanent
  BY <1>4, <1>6 DEF Good
<1>11. Good(n)
  BY <1>4, <1>7, <1>8, <1>9, <1>10 DEF Good
<1> QED BY <1>4, <1>5, <1>11 DEF n

-----------------------------------------------------------------------------
(* Shape is inductive. *)

\* Shape is Good for the log, the types of the other variables, and Placed.
OtherTypes ==
    /\ pc \in {"idle", "write", "mark", "copy", "restore", "retry", "spin", "boot"}
    /\ cur \in [key : Keys \union {None}, val : Values \union {None}, old : Nat]
    /\ waiting \in [key : Keys, val : Values] \union {Explicit, None}
    /\ ram \in Seq(Copies)
    /\ pos \in Nat
    /\ defragFail \in BOOLEAN
    /\ faults \in 0 .. MaxFaults
    /\ crashed \in BOOLEAN

\* Shape is a property of the log and one of the other variables.
LEMMA ShapeParts == Shape <=> Good(log) /\ OtherTypes /\ Placed
  BY DEF Shape, TypeOK, OtherTypes, Good, BlocksContiguous, BlocksOrdered, BlocksSized,
         PermanentMarked

\* The same for the state after a step.
LEMMA ShapePartsNext ==
    ASSUME Good(log'), OtherTypes', Placed'
    PROVE  Shape'
  BY DEF Shape, TypeOK, OtherTypes, Good, BlocksContiguous, BlocksOrdered, BlocksSized,
         PermanentMarked

\* No call is neither a caller nor an explicit one.
LEMMA NoneIsNoCaller ==
    /\ Explicit # None
    /\ \A c \in [key : Keys, val : Values] : c # None /\ c # Explicit
    /\ \A c \in [key : Keys, val : Values] : c.key \in Keys /\ c.val \in Values
<1>1. Explicit \in [key : Keys \union {None}, val : Values \union {None}]
  BY DEF Explicit
<1>2. \A c \in [key : Keys, val : Values] :
         /\ c \in [key : Keys \union {None}, val : Values \union {None}]
         /\ c.key \in Keys /\ c.val \in Values
  OBVIOUS
<1>3. None \notin Keys /\ None \notin [key : Keys \union {None}, val : Values \union {None}]
  BY EnvAssumption
<1>4. Explicit.key = None
  BY DEF Explicit
<1> QED BY <1>1, <1>2, <1>3, <1>4

\* What cur is when no set runs.
LEMMA IdleType ==
    Idle \in [key : Keys \union {None}, val : Values \union {None}, old : Nat]
  BY DEF Idle

\* A set that returns.
LEMMA ShapeReturn ==
    ASSUME Shape, NEW l, Good(l), NEW k, NEW v, NEW status,
           waiting # None => ram # <<>>,
           Return(l, k, v, status), UNCHANGED <<faults, crashed>>
    PROVE  Shape'
<1>1. Good(log) /\ OtherTypes /\ Placed
  BY ShapeParts
<1>2. Good(log')
  BY DEF Return
<1>3. ram' \in Seq(Copies)
  <2>1. ram # <<>> => Tail(ram) \in Seq(Copies)
    BY <1>1, HeadTailProperties DEF OtherTypes
  <2> QED BY <1>1, <2>1 DEF Return, OtherTypes
<1>4. OtherTypes'
  BY <1>1, <1>3, IdleType DEF OtherTypes, Return
<1>5. Placed'
  BY DEF Return, Placed, Writing
<1> QED BY <1>2, <1>4, <1>5, ShapePartsNext

\* A call that waits for itself keeps Shape.
LEMMA ShapeSpins ==
    ASSUME Shape, EnterAgain, UNCHANGED <<faults, crashed>>
    PROVE  Shape'
<1>1. Good(log) /\ OtherTypes /\ Placed
  BY ShapeParts
<1>2. log' = log /\ OtherTypes' /\ Placed'
  BY <1>1 DEF EnterAgain, OtherTypes, Placed, Writing
<1> QED BY <1>1, <1>2, ShapePartsNext

\* __sys_setenv up to its first write, from wherever it is called.
LEMMA ShapeSetenv ==
    ASSUME Shape, NEW k \in Keys, NEW v \in Values,
           waiting # None => ram # <<>>,
           __sys_setenv(k, v), UNCHANGED <<faults, crashed>>
    PROVE  Shape'
<1> DEFINE was == sys_getenv(log, k)
           old == IF was = None THEN 0 ELSE GetEnvBlockByName(log, k)
<1>1. Good(log) /\ OtherTypes /\ Placed
  BY ShapeParts
<1>2. log \in Seq(Block)
  BY <1>1 DEF Good
<1>3. old \in 0 .. Len(log) /\ Len(log) \in Nat
  <2>1. GetEnvBlockByName(log, k) # 0 => GetEnvBlockByName(log, k) \in DOMAIN log
    BY <1>2, Found
  <2>2. DOMAIN log = 1 .. Len(log) /\ Len(log) \in Nat
    BY <1>2, BlockFields
  <2> QED BY <2>1, <2>2
<1>4. \/ \E s : Return(log, k, v, s)
      \/ End(log) + Cells(k, v) <= SpaceCells /\ WriteVarNum(log, k, v, old)
      \/ waiting = None /\ Defrag(log, [key |-> k, val |-> v])
      \/ EnterAgain
  BY DEF __sys_setenv
<1> HIDE DEF was, old
<1>5. CASE \E s : Return(log, k, v, s)
  BY <1>1, <1>5, ShapeReturn
<1>6. CASE End(log) + Cells(k, v) <= SpaceCells /\ WriteVarNum(log, k, v, old)
  <2>1. log' = Append(log, NewBlock(log, k, v))
    BY <1>6 DEF WriteVarNum, NewBlock
  <2>2. /\ Good(log') /\ Len(log') = Len(log) + 1 /\ log' # <<>>
        /\ log'[Len(log')] = NewBlock(log, k, v)
    BY <1>1, <2>1, AppendGood
  <2>3. OtherTypes'
    BY <1>1, <1>3, <1>6 DEF OtherTypes, WriteVarNum
  <2>4. /\ log'[Len(log')].key = k /\ log'[Len(log')].val = v
        /\ log'[Len(log')].at = End(log) /\ log'[Len(log')].stage # "whole"
    BY <2>2 DEF NewBlock
  <2>5. /\ cur'.key = k /\ cur'.val = v /\ cur'.old = old
        /\ pc' = "write" /\ UNCHANGED <<waiting, ram>>
    BY <1>6 DEF WriteVarNum
  <2>6. cur'.old \in 0 .. Len(log') - 1
    BY <1>3, <2>2, <2>5
  <2>7. Placed'
    BY <1>6, <2>2, <2>4, <2>5, <2>6 DEF Placed, Writing
  <2> QED BY <2>2, <2>3, <2>7, ShapePartsNext
<1>7. CASE waiting = None /\ Defrag(log, [key |-> k, val |-> v])
  <2>1. [key |-> k, val |-> v] \in [key : Keys, val : Values]
    OBVIOUS
  <2>2. waiting' # None /\ waiting' \in [key : Keys, val : Values]
    BY <1>7, <2>1, NoneIsNoCaller DEF Defrag
  <2>3. OtherTypes'
    <3>1. ram' \in Seq(Copies) /\ pos' \in Nat /\ defragFail' \in BOOLEAN /\ pc' = "copy"
      BY <1>7, EmptySeq DEF Defrag
    <3>2. UNCHANGED <<cur, faults, crashed>>
      BY <1>7 DEF Defrag
    <3> QED BY <1>1, <2>2, <3>1, <3>2 DEF OtherTypes
  <2>4. Placed'
    BY <1>7, <2>2 DEF Placed, Writing, Defrag
  <2>5. Good(log')
    BY <1>1, <1>7 DEF Defrag
  <2> QED BY <2>3, <2>4, <2>5, ShapePartsNext
<1>8. CASE EnterAgain
  BY <1>8, ShapeSpins
<1> QED BY <1>4, <1>5, <1>6, <1>7, <1>8

\* A block is written further.
LEMMA ShapeWrites ==
    ASSUME Shape, NEW b \in Block, pc = "write", pc' = "write",
           log' = [log EXCEPT ![Len(log)] = b],
           b.at = log[Len(log)].at, b.perm = log[Len(log)].perm,
           b.key = log[Len(log)].key, b.val = log[Len(log)].val, b.stage # "whole",
           b.stage # "num" => /\ b.at + b.cells <= SpaceCells
                              /\ b.cells = Cells(b.key, b.val),
           UNCHANGED <<cur, waiting, ram, pos, defragFail, faults, crashed>>
    PROVE  Shape'
<1>1. Good(log) /\ OtherTypes /\ Placed
  BY ShapeParts
<1>2. log # <<>>
  BY <1>1 DEF Placed, Writing
<1>3. /\ Good(log') /\ Len(log') = Len(log) /\ log' # <<>>
      /\ log'[Len(log)] = b
  BY <1>1, <1>2, LastGood
<1>4. OtherTypes'
  BY <1>1 DEF OtherTypes
<1>5. Placed'
  BY <1>1, <1>3 DEF Placed, Writing
<1> QED BY <1>3, <1>4, <1>5, ShapePartsNext

\* The block that is being written, and what it is at its next stage.
LEMMA WrittenBlock ==
    ASSUME Shape, pc = "write", NEW s \in {"head", "name", "whole"}
    PROVE  LET l == log[Len(log)]
               d == [l EXCEPT !.stage = s]
           IN  /\ l \in Block
               /\ d \in Block /\ d.at = l.at /\ d.perm = l.perm /\ d.key = l.key
               /\ d.val = l.val /\ d.stage = s /\ d.cells = l.cells /\ d.garbage = l.garbage
               /\ l.stage # "num" => /\ l.at + l.cells <= SpaceCells
                                     /\ l.cells = Cells(l.key, l.val)
               /\ Len(log) \in DOMAIN log
<1>1. Good(log) /\ Placed
  BY ShapeParts
<1>2. Len(log) \in DOMAIN log
  BY <1>1, EndIsLast DEF Placed, Writing
<1>3. log[Len(log)] \in Block
  BY <1>1, <1>2, BlockFields DEF Good
<1>4. log[Len(log)].stage # "num" =>
         /\ log[Len(log)].at + log[Len(log)].cells <= SpaceCells
         /\ log[Len(log)].cells = Cells(log[Len(log)].key, log[Len(log)].val)
  BY <1>1, <1>2 DEF Good
<1>5. s \in Stages
  BY DEF Stages
<1> QED BY <1>2, <1>3, <1>4, <1>5 DEF Block

\* The header completes the length too.
LEMMA HeaderWritten ==
    ASSUME Shape, WriteHeader
    PROVE  LET l == log[Len(log)]
               b == [[l EXCEPT !.stage = "head"] EXCEPT !.cells = Cells(cur.key, cur.val)]
           IN  /\ b \in Block /\ b.at = l.at /\ b.perm = l.perm /\ b.key = l.key
               /\ b.val = l.val /\ b.garbage = l.garbage
               /\ b.at + b.cells <= SpaceCells /\ b.cells = Cells(b.key, b.val)
               /\ b.stage = "head"
               /\ log' = [log EXCEPT ![Len(log)] = b]
               /\ Len(log) \in DOMAIN log
<1> DEFINE l == log[Len(log)]
           c == Cells(cur.key, cur.val)
           b == [[l EXCEPT !.stage = "head"] EXCEPT !.cells = c]
<1>1. Placed /\ pc = "write"
  BY ShapeParts DEF WriteHeader
<1>2. c \in Nat \ {0}
  BY <1>1, CellsPositive DEF Placed, Writing
<1>3. /\ l.key = cur.key /\ l.val = cur.val
      /\ l.at + c <= SpaceCells
  BY <1>1 DEF Placed
<1>4. l \in Block /\ Len(log) \in DOMAIN log
  BY <1>1, WrittenBlock
<1>5. log' = [log EXCEPT ![Len(log)] = b]
  BY <1>4 DEF WriteHeader, Last
<1> HIDE DEF c, l
<1>6. /\ b \in Block /\ b.at = l.at /\ b.perm = l.perm /\ b.key = l.key
      /\ b.val = l.val /\ b.stage = "head" /\ b.cells = c /\ b.garbage = l.garbage
  BY <1>2, <1>4 DEF Block, Stages
<1> HIDE DEF b
<1>7. b.at + b.cells <= SpaceCells /\ b.cells = Cells(b.key, b.val)
  BY <1>3, <1>6 DEF c
<1> QED BY <1>4, <1>5, <1>6, <1>7 DEF b, l, c

\* The write of the header keeps Shape.
LEMMA ShapeWriteHeader ==
    ASSUME Shape, WriteHeader
    PROVE  Shape'
<1> DEFINE l == log[Len(log)]
           b == [[l EXCEPT !.stage = "head"] EXCEPT !.cells = Cells(cur.key, cur.val)]
<1>1. /\ b \in Block /\ b.at = l.at /\ b.perm = l.perm /\ b.key = l.key
      /\ b.val = l.val /\ b.stage # "whole"
      /\ b.at + b.cells <= SpaceCells /\ b.cells = Cells(b.key, b.val)
      /\ log' = [log EXCEPT ![Len(log)] = b]
  BY HeaderWritten
<1>2. /\ pc = "write" /\ pc' = "write"
      /\ UNCHANGED <<cur, waiting, ram, pos, defragFail, faults, crashed>>
  BY DEF WriteHeader
<1> HIDE DEF b, l
<1> QED BY <1>1, <1>2, ShapeWrites DEF l

\* The write of the name keeps Shape.
LEMMA ShapeWriteName ==
    ASSUME Shape, WriteName
    PROVE  Shape'
<1> DEFINE l == log[Len(log)]
           d == [l EXCEPT !.stage = "name"]
<1>1. Placed /\ pc = "write" /\ l.stage = "head"
  BY ShapeParts DEF WriteName, Last
<1>2. /\ d \in Block /\ d.at = l.at /\ d.perm = l.perm /\ d.key = l.key
      /\ d.val = l.val /\ d.stage = "name" /\ d.cells = l.cells
      /\ l.at + l.cells <= SpaceCells /\ l.cells = Cells(l.key, l.val)
      /\ Len(log) \in DOMAIN log
  BY <1>1, WrittenBlock
<1>3. log' = [log EXCEPT ![Len(log)] = d]
  BY <1>2 DEF WriteName, Last
<1>4. pc' = "write" /\ UNCHANGED <<cur, waiting, ram, pos, defragFail, faults, crashed>>
  BY <1>1 DEF WriteName
<1> HIDE DEF d, l
<1>5. d.at + d.cells <= SpaceCells /\ d.cells = Cells(d.key, d.val) /\ d.stage # "whole"
  BY <1>2
<1> QED BY <1>1, <1>2, <1>3, <1>4, <1>5, ShapeWrites DEF l

\* The log after the last write of a set.
LEMMA ValueWritten ==
    ASSUME Shape, WriteValue
    PROVE  LET l == [log EXCEPT ![Last].stage = "whole"]
           IN  /\ Good(l) /\ Len(l) = Len(log) /\ DOMAIN l = DOMAIN log /\ l # <<>>
               /\ l[Len(l)] = [log[Len(log)] EXCEPT !.stage = "whole"]
               /\ l[Len(l)].key = log[Len(log)].key /\ l[Len(l)].val = log[Len(log)].val
               /\ l[Len(l)].garbage = log[Len(log)].garbage
               /\ l[Len(l)].stage = "whole"
               /\ l[Len(l)].at = log[Len(log)].at
               /\ l[Len(l)].cells = Cells(log[Len(log)].key, log[Len(log)].val)
               /\ \A j \in DOMAIN log : j # Len(log) => l[j] = log[j]
<1> DEFINE b == log[Len(log)]
           d == [b EXCEPT !.stage = "whole"]
<1>1. Good(log) /\ Placed /\ pc = "write" /\ b.stage \in {"head", "name"}
  BY ShapeParts DEF WriteValue, Last
<1>2. /\ d \in Block /\ d.at = b.at /\ d.perm = b.perm /\ d.key = b.key
      /\ d.val = b.val /\ d.stage = "whole" /\ d.cells = b.cells /\ d.garbage = b.garbage
      /\ b.at + b.cells <= SpaceCells /\ b.cells = Cells(b.key, b.val)
      /\ Len(log) \in DOMAIN log
  BY <1>1, WrittenBlock
<1>3. [log EXCEPT ![Last].stage = "whole"] = [log EXCEPT ![Len(log)] = d]
  BY <1>2 DEF Last
<1>4. log # <<>>
  BY <1>1 DEF Placed, Writing
<1> HIDE DEF d, b
<1>5. d.stage # "num" => d.at + d.cells <= SpaceCells /\ d.cells = Cells(d.key, d.val)
  BY <1>2
<1>6. LET n == [log EXCEPT ![Len(log)] = d]
      IN  /\ Good(n) /\ Len(n) = Len(log) /\ DOMAIN n = DOMAIN log /\ n # <<>>
          /\ n[Len(log)] = d /\ \A j \in DOMAIN log : j # Len(log) => n[j] = log[j]
  BY <1>1, <1>2, <1>4, <1>5, LastGood DEF b
<1> QED BY <1>2, <1>3, <1>6 DEF b, d

\* The write of the value keeps Shape.
LEMMA ShapeWriteValue ==
    ASSUME Shape, WriteValue
    PROVE  Shape'
<1> DEFINE l == [log EXCEPT ![Last].stage = "whole"]
<1>1. OtherTypes /\ Placed /\ pc = "write"
  BY ShapeParts DEF WriteValue
<1>2. Good(l) /\ Len(l) = Len(log) /\ l # <<>>
  BY ValueWritten
<1>3. CASE cur.old = 0
  <2>1. Return(l, cur.key, cur.val, "success") /\ UNCHANGED <<faults, crashed>>
    BY <1>3 DEF WriteValue
  <2>2. waiting # None => ram # <<>>
    BY <1>1 DEF Placed, Writing
  <2> HIDE DEF l
  <2> QED BY <1>2, <2>1, <2>2, ShapeReturn
<1>4. CASE cur.old # 0
  <2>1. /\ log' = l /\ pc' = "mark"
        /\ UNCHANGED <<cur, waiting, ram, pos, defragFail, faults, crashed>>
    BY <1>4 DEF WriteValue
  <2> HIDE DEF l
  <2>2. OtherTypes' /\ Placed'
    BY <1>1, <1>2, <1>4, <2>1 DEF OtherTypes, Placed, Writing
  <2> QED BY <1>2, <2>1, <2>2, ShapePartsNext
<1> QED BY <1>3, <1>4

\* The mark on the old block keeps Shape.
LEMMA ShapeMarkOld ==
    ASSUME Shape, MarkOld
    PROVE  Shape'
<1>1. Good(log) /\ OtherTypes /\ Placed /\ pc = "mark"
  BY ShapeParts DEF MarkOld
<1>2. cur.old \in DOMAIN log /\ (waiting # None => ram # <<>>)
  <2>1. DOMAIN log = 1 .. Len(log) /\ Len(log) \in Nat
    BY <1>1, BlockFields DEF Good
  <2> QED BY <1>1, <2>1 DEF Placed, Writing
<1>3. Good(EnvMakeGarbage(log, cur.old))
  BY <1>1, <1>2, MarkedGood
<1> QED BY <1>2, <1>3, ShapeReturn DEF MarkOld

\* The search for the next live block.
LEMMA NextLiveFound ==
    ASSUME NEW l \in Seq(Block), NEW p \in Nat
    PROVE  LET i == NextLive(l, p)
           IN  /\ i = 0 => \A j \in DOMAIN l : j > p => l[j].garbage
               /\ i # 0 => /\ i \in DOMAIN l /\ i > p /\ ~l[i].garbage
                           /\ \A j \in DOMAIN l : j > p /\ ~l[j].garbage => i <= j
<1> DEFINE I == {j \in DOMAIN l : j > p /\ ~l[j].garbage}
<1>1. I \in SUBSET (Nat \ {0})
  BY BlockFields
<1>2. NextLive(l, p) = First(I)
  BY DEF NextLive
<1>3. /\ I = {} => First(I) = 0
      /\ I # {} => First(I) \in I /\ \A j \in I : First(I) <= j
  BY <1>1, FirstIsLeast
<1>4. 0 \notin I
  BY <1>1
<1>5. First(I) = 0 => I = {}
  BY <1>3, <1>4
<1> QED BY <1>2, <1>3, <1>5

\* The copy of a block to RAM keeps Shape.
LEMMA ShapeCopyBlock ==
    ASSUME Shape, CopyBlock
    PROVE  Shape'
<1> DEFINE i == NextLive(log, pos)
<1>1. Good(log) /\ OtherTypes /\ Placed /\ pc = "copy"
  BY ShapeParts DEF CopyBlock
<1>2. log \in Seq(Block) /\ pos \in Nat
  BY <1>1 DEF Good, OtherTypes
<1>3. i \in DOMAIN log /\ i \in Nat
  <2>1. i # 0
    BY DEF CopyBlock
  <2> QED BY <1>2, <2>1, NextLiveFound, BlockFields
<1>4. log[i].key \in Keys /\ log[i].val \in Values /\ log[i].at \in Nat
  BY <1>2, <1>3, BlockFields
<1>5. [key |-> log[i].key, val |-> log[i].val, at |-> log[i].at] \in Copies
  BY <1>4 DEF Copies
<1>6. CASE BadChecksum(log[i])
  BY <1>6, ShapeSpins DEF CopyBlock
<1>7. CASE ~BadChecksum(log[i])
  <2>1. /\ pos' = i
        /\ ram' = Append(ram, [key |-> log[i].key, val |-> log[i].val, at |-> log[i].at])
        /\ UNCHANGED <<log, pc, cur, waiting, defragFail, faults, crashed>>
    BY <1>7 DEF CopyBlock
  <2>2. ram' \in Seq(Copies)
    BY <1>1, <1>5, <2>1, AppendProperties DEF OtherTypes
  <2>3. OtherTypes' /\ Placed'
    BY <1>1, <1>3, <2>1, <2>2 DEF OtherTypes, Placed, Writing
  <2> QED BY <1>1, <2>1, <2>3, ShapePartsNext
<1> QED BY <1>6, <1>7

\* An erased sector is a good log.
LEMMA EmptyGood == Good(<<>>)
<1>1. <<>> \in Seq(Block)
  BY EmptySeq
<1>2. DOMAIN <<>> = {}
  BY <1>1, BlockFields, EmptySeq
<1> QED BY <1>1, <1>2 DEF Good

\* The erasure of the sector keeps Shape.
LEMMA ShapeFormat ==
    ASSUME Shape, Format
    PROVE  Shape'
<1>1. Good(log) /\ OtherTypes /\ Placed /\ pc = "copy"
  BY ShapeParts DEF Format
<1>2. OtherTypes' /\ Placed' /\ log' = <<>>
  BY <1>1 DEF OtherTypes, Placed, Writing, Format
<1> QED BY <1>2, EmptyGood, ShapePartsNext

\* A failing defragmentation keeps Shape.
LEMMA ShapeDefragFails ==
    ASSUME Shape, DefragFails
    PROVE  Shape'
<1>1. Good(log) /\ OtherTypes /\ Placed /\ pc = "copy"
  BY ShapeParts DEF DefragFails
<1>2. faults' \in 0 .. MaxFaults
  <2>1. MaxFaults \in Nat
    BY EnvAssumption
  <2> QED BY <1>1, <2>1 DEF DefragFails, OtherTypes
<1>3. OtherTypes' /\ Placed' /\ log' = log
  BY <1>1, <1>2 DEF OtherTypes, Placed, Writing, DefragFails
<1> QED BY <1>1, <1>3, ShapePartsNext

\* The restoring loop keeps Shape.
LEMMA ShapeRestoreBlock ==
    ASSUME Shape, RestoreBlock
    PROVE  Shape'
<1>1. OtherTypes /\ ram # <<>>
  BY ShapeParts DEF RestoreBlock
<1>2. Head(ram) \in Copies
  BY <1>1, HeadTailProperties DEF OtherTypes
<1>3. Head(ram).key \in Keys /\ Head(ram).val \in Values
  BY <1>2 DEF Copies
<1> QED BY <1>1, <1>3, ShapeSetenv DEF RestoreBlock

\* The return of sys_defragenv keeps Shape.
LEMMA ShapeDefragged ==
    ASSUME Shape, Defragged
    PROVE  Shape'
<1>1. Good(log) /\ OtherTypes /\ Placed /\ pc = "restore"
  BY ShapeParts DEF Defragged
<1>2. waiting = Explicit \/ waiting \in [key : Keys, val : Values]
  BY <1>1 DEF Placed, OtherTypes
<1>3. waiting # Explicit => waiting.key \in Keys /\ waiting.val \in Values
  BY <1>2, NoneIsNoCaller
<1>4. /\ pc' \in {"idle", "retry"} /\ waiting' = None
      /\ UNCHANGED <<log, ram, pos, defragFail, faults, crashed>>
      /\ \/ UNCHANGED cur /\ pc' = "idle"
         \/ /\ waiting # Explicit
            /\ cur' = [key |-> waiting.key, val |-> waiting.val, old |-> 0]
  BY DEF Defragged
<1>5. /\ cur' \in [key : Keys \union {None}, val : Values \union {None}, old : Nat]
      /\ pc' = "retry" => cur'.key \in Keys /\ cur'.val \in Values
  BY <1>1, <1>3, <1>4 DEF OtherTypes
<1>6. OtherTypes'
  BY <1>1, <1>4, <1>5 DEF OtherTypes
<1>7. Placed'
  BY <1>4, <1>5 DEF Placed, Writing
<1> QED BY <1>1, <1>4, <1>6, <1>7, ShapePartsNext

\* The set that starts again after sys_defragenv keeps Shape.
LEMMA ShapeRetry ==
    ASSUME Shape, Retry
    PROVE  Shape'
<1>1. cur.key \in Keys /\ cur.val \in Values /\ waiting = None
  BY ShapeParts DEF Retry, Placed
<1> QED BY <1>1, ShapeSetenv DEF Retry

\* A call that marks a block at most and returns at once.
LEMMA ShapeMarks ==
    ASSUME Shape, pc \in {"idle", "boot"}, Good(log'),
           UNCHANGED <<pc, cur, waiting, ram, pos, defragFail, faults, crashed>>
    PROVE  Shape'
<1>1. OtherTypes /\ Placed
  BY ShapeParts
<1>2. OtherTypes' /\ Placed'
  BY <1>1 DEF OtherTypes, Placed, Writing
<1> QED BY <1>2, ShapePartsNext

\* sys_getenv keeps Shape.
LEMMA ShapeGet ==
    ASSUME Shape, NEW k \in Keys, Getenv(k)
    PROVE  Shape'
<1>1. Good(log)
  BY ShapeParts
<1>2. CASE Torn(log, k)
  BY <1>2, ShapeSpins DEF Getenv
<1>3. CASE ~Torn(log, k)
  BY <1>1, <1>3, ShapeMarks DEF Getenv
<1> QED BY <1>2, <1>3

\* sys_unsetenv keeps Shape.
LEMMA ShapeUnset ==
    ASSUME Shape, NEW k \in Keys, Unsetenv(k)
    PROVE  Shape'
<1>1. Good(log)
  BY ShapeParts
<1>2. log \in Seq(Block)
  BY <1>1 DEF Good
<1>3. GetEnvBlockByName(log, k) # 0 => GetEnvBlockByName(log, k) \in DOMAIN log
  BY <1>2, Found
<1>4. Good(log')
  BY <1>1, <1>3, MarkedGood DEF Unsetenv
<1> QED BY <1>4, ShapeMarks DEF Unsetenv

\* A read by number keeps Shape.
LEMMA ShapeReadByNumber ==
    ASSUME Shape, ReadByNumber
    PROVE  Shape'
  BY ShapeSpins DEF ReadByNumber

\* What the boot loader does keeps Shape.
LEMMA ShapeLoader ==
    ASSUME Shape, LoaderReads \/ Booted
    PROVE  Shape'
<1>1. Good(log) /\ OtherTypes /\ Placed
  BY ShapeParts
<1>2. CASE LoaderReads
  <2>1. Good(log')
    BY <1>1, <1>2, MarkedGood DEF LoaderReads
  <2> QED BY <1>2, <2>1, ShapeMarks DEF LoaderReads
<1>3. CASE Booted
  <2>1. log' = log /\ OtherTypes' /\ Placed'
    BY <1>1, <1>3 DEF Booted, OtherTypes, Placed, Writing
  <2> QED BY <1>1, <2>1, ShapePartsNext
<1> QED BY <1>2, <1>3

\* sys_setenv keeps Shape.
LEMMA ShapeSet ==
    ASSUME Shape, NEW k \in Keys, NEW v \in Values, Setenv(k, v)
    PROVE  Shape'
<1>1. Good(log) /\ waiting = None
  BY ShapeParts DEF Setenv, Placed
<1>2. CASE k \in ReadOnly
  BY <1>1, <1>2, ShapeMarks DEF Setenv
<1>3. CASE k \notin ReadOnly
  BY <1>1, <1>3, ShapeSetenv DEF Setenv
<1> QED BY <1>2, <1>3

\* A call of sys_defragenv keeps Shape.
LEMMA ShapeDefragenv ==
    ASSUME Shape, Defragenv
    PROVE  Shape'
<1>1. Good(log) /\ OtherTypes
  BY ShapeParts
<1>2. ram' \in Seq(Copies) /\ pos' \in Nat /\ defragFail' \in BOOLEAN /\ pc' = "copy"
  BY EmptySeq DEF Defrag, Defragenv
<1>3. UNCHANGED <<log, cur, faults, crashed>> /\ waiting' = Explicit
  BY DEF Defrag, Defragenv
<1>4. OtherTypes'
  BY <1>1, <1>2, <1>3 DEF OtherTypes
<1>5. Placed'
  BY <1>2, <1>3, NoneIsNoCaller DEF Placed, Writing
<1> QED BY <1>1, <1>3, <1>4, <1>5, ShapePartsNext

\* A power failure keeps Shape.
LEMMA ShapePowerFailure ==
    ASSUME Shape, PowerFailure
    PROVE  Shape'
<1>1. Good(log) /\ OtherTypes
  BY ShapeParts
<1>2. faults' \in 0 .. MaxFaults
  <2>1. MaxFaults \in Nat
    BY EnvAssumption
  <2> QED BY <1>1, <2>1 DEF PowerFailure, OtherTypes
<1>3. ram' \in Seq(Copies) /\ pos' \in Nat
  BY EmptySeq DEF PowerFailure
<1>4. OtherTypes'
  BY <1>2, <1>3, IdleType DEF OtherTypes, PowerFailure
<1>5. Placed' /\ log' = log
  BY DEF Placed, Writing, PowerFailure
<1> QED BY <1>1, <1>4, <1>5, ShapePartsNext

\* Shape holds in the first state.
LEMMA ShapeInit ==
    ASSUME Init
    PROVE  Shape
<1>1. Good(log)
  <2>1. CASE log = <<>>
    BY <2>1, EmptyGood
  <2>2. CASE log # <<>>
    <3>1. PICK k \in Permanent, v \in Values :
             /\ Cells(k, v) <= SpaceCells
             /\ log = <<[key |-> k, val |-> v, stage |-> "whole", garbage |-> FALSE,
                         perm |-> TRUE, at |-> 0, cells |-> Cells(k, v)]>>
      BY <2>2 DEF Init
    <3> DEFINE b == [key |-> k, val |-> v, stage |-> "whole", garbage |-> FALSE,
                     perm |-> TRUE, at |-> 0, cells |-> Cells(k, v)]
    <3>2. k \in Keys
      BY EnvAssumption DEF Keys
    <3>3. Cells(k, v) \in Nat /\ Cells(k, v) > 0
      BY <3>2, CellsPositive
    <3>4. b \in Block
      BY <3>2, <3>3 DEF Block, Stages
    <3>5. /\ b.at = 0 /\ b.cells = Cells(k, v) /\ b.key = k /\ b.val = v
          /\ b.key \in Permanent
      OBVIOUS
    <3> HIDE DEF b
    <3>6. <<b>> \in Seq(Block) /\ DOMAIN <<b>> = {1} /\ <<b>>[1] = b
      BY <3>4
    <3>7. log = <<b>>
      BY <3>1 DEF b
    <3>8. b.at + b.cells <= SpaceCells
      BY <3>1, <3>3, <3>5, EnvAssumption
    <3>9. \A i \in DOMAIN log : i = 1 /\ log[i] = b
      BY <3>6, <3>7
    <3>10. log \in Seq(Block)
      BY <3>6, <3>7
    <3>11. ~(1 < 1)
      OBVIOUS
    <3> QED BY <3>5, <3>8, <3>9, <3>10, <3>11 DEF Good
  <2> QED BY <2>1, <2>2
<1>2. OtherTypes
  <2>1. MaxFaults \in Nat
    BY EnvAssumption
  <2>2. ram \in Seq(Copies) /\ pos \in Nat
    BY EmptySeq DEF Init
  <2>3. faults \in 0 .. MaxFaults
    BY <2>1 DEF Init
  <2>4. defragFail \in BOOLEAN /\ crashed \in BOOLEAN
    BY Zenon DEF Init
  <2> QED BY <2>2, <2>3, <2>4, IdleType DEF Init, OtherTypes
<1>3. Placed
  BY DEF Init, Placed, Writing
<1> QED BY <1>1, <1>2, <1>3, ShapeParts

\* Every step keeps Shape.
LEMMA ShapeNext ==
    ASSUME Shape, [Next]_vars
    PROVE  Shape'
<1>1. CASE UNCHANGED vars
  BY <1>1 DEF vars, Shape, TypeOK, Placed, Writing, BlocksContiguous, BlocksOrdered,
              BlocksSized, PermanentMarked
<1>2. CASE Step
  BY <1>2, ShapeWriteHeader, ShapeWriteName, ShapeWriteValue, ShapeMarkOld,
     ShapeCopyBlock, ShapeFormat, ShapeRestoreBlock, ShapeDefragged, ShapeRetry,
     ShapeLoader DEF Step
<1>3. CASE \E k \in Keys : Getenv(k) \/ Unsetenv(k)
  BY <1>3, ShapeGet, ShapeUnset
<1>4. CASE \E k \in Keys, v \in Values : Setenv(k, v)
  BY <1>4, ShapeSet
<1>5. CASE Defragenv \/ ReadByNumber
  BY <1>5, ShapeDefragenv, ShapeReadByNumber
<1>6. CASE DefragFails \/ PowerFailure \/ LoaderReads
  BY <1>6, ShapeDefragFails, ShapePowerFailure, ShapeLoader
<1> QED BY <1>1, <1>2, <1>3, <1>4, <1>5, <1>6 DEF Next, Spin

\* Shape holds in every reachable state, after any number of power failures.
THEOREM ShapeHolds == Spec => []Shape
<1>1. Init => Shape
  BY ShapeInit
<1>2. Shape /\ [Next]_vars => Shape'
  BY ShapeNext
<1> QED BY <1>1, <1>2, PTL DEF Spec

\* Every step keeps the types of flash, RAM and program, for any history of
\* calls, failures of the erase and power failures.
THEOREM TypeCorrect == Spec => []TypeOK
<1>1. Shape => TypeOK
  BY DEF Shape
<1> QED BY <1>1, ShapeHolds, PTL

\* The blocks lie one after the other inside the sector in every reachable
\* state: the walk of GetEnvBlockByName over the log finds each of them, and no
\* set writes beyond the sector.
THEOREM Contiguous == Spec => []BlocksContiguous
<1>1. Shape => BlocksContiguous
  BY DEF Shape
<1> QED BY <1>1, ShapeHolds, PTL

-----------------------------------------------------------------------------
(* Lookups, when no value is a name. *)

\* The comparison of GetEnvBlockByName finds blocks of its variable only, and
\* every whole one.
LEMMA MatchesKey ==
    ASSUME ValuesAreNoNames, NEW k \in Keys, NEW b \in Block
    PROVE  /\ Matches(k, b) => b.key = k
           /\ b.key = k /\ b.stage = "whole" => Matches(k, b)
<1>1. b.val \in Values /\ b.key \in Keys
  BY DEF Block
<1>2. k \notin Predefined => k \in Dynamic /\ b.val # k
  BY <1>1 DEF Keys, ValuesAreNoNames
<1> QED BY <1>2 DEF Matches

\* A whole block that is the first of its variable is the one that is found.
LEMMA LookupHit ==
    ASSUME ValuesAreNoNames, NEW l \in Seq(Block), NEW k \in Keys, NEW i \in DOMAIN l,
           ~l[i].garbage, l[i].key = k, l[i].stage = "whole",
           \A j \in DOMAIN l : ~l[j].garbage /\ l[j].key = k => i <= j
    PROVE  /\ GetEnvBlockByName(l, k) = i /\ sys_getenv(l, k) = l[i].val
           /\ ~Torn(l, k) /\ i # 0 /\ l[i].val \in Values /\ l[i].val # None
<1> DEFINE g == GetEnvBlockByName(l, k)
<1>1. DOMAIN l = 1 .. Len(l) /\ Len(l) \in Nat /\ \A j \in DOMAIN l : l[j] \in Block
  BY BlockFields
<1>2. Matches(k, l[i])
  BY <1>1, MatchesKey
<1>3. g \in DOMAIN l /\ ~l[g].garbage /\ Matches(k, l[g]) /\ g <= i
  BY <1>2, Found
<1>4. l[g].key = k
  BY <1>1, <1>3, MatchesKey
<1>5. g = i /\ i # 0
  BY <1>1, <1>3, <1>4
<1>6. l[i].val \in Values /\ l[i].val # None
  BY BlockFields, EnvAssumption
<1>7. ~BadChecksum(l[i])
  BY DEF BadChecksum
<1> QED BY <1>5, <1>6, <1>7 DEF sys_getenv, Torn

\* Blocks that are not whole do not count.
LEMMA LookupMiss ==
    ASSUME ValuesAreNoNames, NEW l \in Seq(Block), NEW k \in Keys,
           \A j \in DOMAIN l : ~l[j].garbage /\ l[j].key = k => l[j].stage # "whole"
    PROVE  sys_getenv(l, k) = None
<1> DEFINE g == GetEnvBlockByName(l, k)
<1>1. g # 0 => g \in DOMAIN l /\ ~l[g].garbage /\ Matches(k, l[g]) /\ l[g] \in Block
  BY Found, BlockFields
<1>2. g # 0 => BadChecksum(l[g])
  BY <1>1, MatchesKey DEF BadChecksum
<1> QED BY <1>2 DEF sys_getenv

\* A variable without a live block is not found.
LEMMA LookupNone ==
    ASSUME ValuesAreNoNames, NEW l \in Seq(Block), NEW k \in Keys,
           \A j \in DOMAIN l : l[j].garbage \/ l[j].key # k
    PROVE  /\ GetEnvBlockByName(l, k) = 0 /\ sys_getenv(l, k) = None
           /\ ~Torn(l, k)
<1> DEFINE g == GetEnvBlockByName(l, k)
<1>1. g # 0 => g \in DOMAIN l /\ ~l[g].garbage /\ Matches(k, l[g]) /\ l[g] \in Block
  BY Found, BlockFields
<1>2. g = 0
  BY <1>1, MatchesKey
<1> QED BY <1>2 DEF sys_getenv, Torn

\* A log as it is between two calls.
Settled(l) ==
    /\ l \in Seq(Block)
    /\ \A i \in DOMAIN l : l[i].stage = "whole"
    /\ \A i, j \in DOMAIN l :
          ~l[i].garbage /\ ~l[j].garbage /\ l[i].key = l[j].key => i = j

\* In a settled log a lookup finds the one live block of its variable, if there
\* is one, and changes nothing.
LEMMA LookupSettled ==
    ASSUME ValuesAreNoNames, NEW l, Settled(l), NEW k \in Keys
    PROVE  /\ ~Torn(l, k)
           /\ \/ /\ \A j \in DOMAIN l : l[j].garbage \/ l[j].key # k
                 /\ GetEnvBlockByName(l, k) = 0 /\ sys_getenv(l, k) = None
              \/ \E i \in DOMAIN l :
                    /\ ~l[i].garbage /\ l[i].key = k /\ i # 0
                    /\ GetEnvBlockByName(l, k) = i /\ sys_getenv(l, k) = l[i].val
                    /\ l[i].val \in Values /\ l[i].val # None
<1>1. l \in Seq(Block)
  BY DEF Settled
<1>2. CASE \A j \in DOMAIN l : l[j].garbage \/ l[j].key # k
  BY <1>1, <1>2, LookupNone
<1>3. CASE \E i \in DOMAIN l : ~l[i].garbage /\ l[i].key = k
  <2>1. PICK i \in DOMAIN l : ~l[i].garbage /\ l[i].key = k
    BY <1>3
  <2>2. DOMAIN l = 1 .. Len(l) /\ Len(l) \in Nat
    BY <1>1, BlockFields
  <2>3. \A j \in DOMAIN l : ~l[j].garbage /\ l[j].key = k => i <= j
    BY <2>1, <2>2 DEF Settled
  <2>4. l[i].stage = "whole"
    BY DEF Settled
  <2>5. /\ GetEnvBlockByName(l, k) = i /\ sys_getenv(l, k) = l[i].val
        /\ ~Torn(l, k) /\ i # 0 /\ l[i].val \in Values /\ l[i].val # None
    BY <1>1, <2>1, <2>3, <2>4, LookupHit
  <2> QED BY <2>1, <2>5
<1> QED BY <1>2, <1>3

-----------------------------------------------------------------------------
(* Intact is inductive. *)

\* What Intact says of a state without power failures.
Sound ==
    /\ BlocksWhole /\ LiveBlocks
    /\ waiting # None => CopiesOrdered
    /\ Copying /\ RestoringFailed /\ RestoringErased

\* Between two sets the log is settled.
LEMMA SoundSettled ==
    ASSUME Shape, Sound, ~Writing
    PROVE  Settled(log)
<1>1. log \in Seq(Block)
  BY DEF Shape, TypeOK
<1>2. DOMAIN log = 1 .. Len(log) /\ Len(log) \in Nat
  BY <1>1, BlockFields
<1>3. \A i \in DOMAIN log : log[i].stage = "whole"
  BY DEF Sound, BlocksWhole, Writing
<1>4. \A i, j \in DOMAIN log :
         i < j => log[i].garbage \/ log[j].garbage \/ log[i].key # log[j].key
  BY DEF Sound, LiveBlocks
<1>5. ASSUME NEW i \in DOMAIN log, NEW j \in DOMAIN log,
             ~log[i].garbage, ~log[j].garbage, log[i].key = log[j].key
      PROVE  i = j
  <2>1. i < j \/ j < i \/ i = j
    BY <1>2
  <2> QED BY <1>4, <1>5, <2>1
<1> QED BY <1>1, <1>3, <1>5 DEF Settled

\* The copies in RAM.
LEMMA RamFields ==
    ASSUME NEW r \in Seq(Copies)
    PROVE  /\ Len(r) \in Nat /\ DOMAIN r = 1 .. Len(r)
           /\ \A x \in DOMAIN r : /\ r[x] \in Copies
                                  /\ r[x].key \in Keys /\ r[x].val \in Values
                                  /\ r[x].at \in Nat
                                  /\ Cells(r[x].key, r[x].val) \in Nat
           /\ r # <<>> => /\ Len(r) > 0 /\ 1 \in DOMAIN r /\ Head(r) = r[1]
                          /\ Tail(r) \in Seq(Copies) /\ Len(Tail(r)) = Len(r) - 1
                          /\ DOMAIN Tail(r) = 1 .. Len(r) - 1
                          /\ \A x \in DOMAIN Tail(r) : x + 1 \in DOMAIN r /\ Tail(r)[x] = r[x + 1]
                          /\ \A x \in DOMAIN r : x # 1 => x - 1 \in DOMAIN Tail(r) /\ Tail(r)[x - 1] = r[x]
<1>1. r \in [1 .. Len(r) -> Copies] /\ Len(r) \in Nat /\ DOMAIN r = 1 .. Len(r)
  BY LenProperties
<1>2. \A x \in DOMAIN r : r[x] \in Copies
  BY <1>1
<1>3. \A x \in DOMAIN r : r[x].key \in Keys /\ r[x].val \in Values /\ r[x].at \in Nat
  BY <1>2 DEF Copies
<1>4. \A x \in DOMAIN r : Cells(r[x].key, r[x].val) \in Nat
  BY <1>3, CellsPositive
<1>5. ASSUME r # <<>>
      PROVE  /\ Len(r) > 0 /\ 1 \in DOMAIN r /\ Head(r) = r[1]
             /\ Tail(r) \in Seq(Copies) /\ Len(Tail(r)) = Len(r) - 1
             /\ \A i \in 1 .. Len(Tail(r)) : Tail(r)[i] = r[i + 1]
  <2>1. Len(r) # 0
    BY <1>5, EmptySeq
  <2>2. Len(r) > 0 /\ 1 \in DOMAIN r
    BY <1>1, <2>1
  <2>3. /\ Tail(r) \in Seq(Copies) /\ Len(Tail(r)) = Len(r) - 1
        /\ \A i \in 1 .. Len(Tail(r)) : Tail(r)[i] = r[i + 1]
    BY <1>5, HeadTailProperties
  <2>4. Head(r) = r[1]
    OBVIOUS
  <2> QED BY <2>2, <2>3, <2>4
<1>6. ASSUME r # <<>>
      PROVE  /\ DOMAIN Tail(r) = 1 .. Len(r) - 1
             /\ \A x \in DOMAIN Tail(r) : x + 1 \in DOMAIN r /\ Tail(r)[x] = r[x + 1]
             /\ \A x \in DOMAIN r : x # 1 => x - 1 \in DOMAIN Tail(r) /\ Tail(r)[x - 1] = r[x]
  <2>1. DOMAIN Tail(r) = 1 .. Len(r) - 1
    BY <1>5, <1>6, LenProperties
  <2>2. \A x \in DOMAIN Tail(r) : x + 1 \in DOMAIN r /\ Tail(r)[x] = r[x + 1]
    BY <1>1, <1>5, <1>6, <2>1
  <2>3. \A x \in DOMAIN r : x # 1 => x - 1 \in DOMAIN Tail(r) /\ (x - 1) + 1 = x
    BY <1>1, <2>1
  <2> QED BY <2>1, <2>2, <2>3
<1> QED BY <1>1, <1>2, <1>3, <1>4, <1>5, <1>6

\* A settled log and no call that waits.
LEMMA SoundIdle ==
    ASSUME Settled(log'), waiting' = None, pc' \in {"idle", "retry"}
    PROVE  Sound'
<1>1. DOMAIN log' = 1 .. Len(log') /\ Len(log') \in Nat
  BY BlockFields DEF Settled
<1>2. BlocksWhole'
  BY DEF BlocksWhole, Settled
<1>3. LiveBlocks'
  <2>1. \A i \in DOMAIN log' : ~(i < i)
    BY <1>1
  <2> QED BY <2>1 DEF LiveBlocks, Settled, Writing
<1> QED BY <1>2, <1>3 DEF Sound, Copying, RestoringFailed, RestoringErased

\* sys_defragenv is entered with a settled log.
LEMMA SoundDefrag ==
    ASSUME NEW l, Settled(l), NEW caller, Defrag(l, caller)
    PROVE  Sound'
<1>1. DOMAIN l = 1 .. Len(l) /\ Len(l) \in Nat
  BY BlockFields DEF Settled
<1>2. /\ log' = l /\ pc' = "copy" /\ pos' = 0 /\ ram' = <<>> /\ defragFail' = FALSE
  BY DEF Defrag
<1>3. DOMAIN ram' = {}
  BY <1>2
<1>4. BlocksWhole' /\ CopiesOrdered'
  BY <1>2, <1>3 DEF BlocksWhole, Settled, CopiesOrdered
<1>5. LiveBlocks'
  <2>1. \A i \in DOMAIN l : ~(i < i)
    BY <1>1
  <2> QED BY <1>2, <2>1 DEF LiveBlocks, Settled, Writing
<1>6. Copying'
  <2>1. \A i \in DOMAIN log' : ~(i <= pos')
    BY <1>1, <1>2
  <2> QED BY <1>2, <1>3, <2>1 DEF Copying
<1> QED BY <1>2, <1>4, <1>5, <1>6 DEF Sound, RestoringFailed, RestoringErased

\* The next copy is the first one, when the one before it is done.
LEMMA CopiesOrderedTail ==
    ASSUME Shape, ram # <<>>, CopiesOrdered, ram' = Tail(ram)
    PROVE  CopiesOrdered'
<1>1. ram \in Seq(Copies)
  BY DEF Shape, TypeOK
<1>2. Len(ram) \in Nat /\ DOMAIN ram = 1 .. Len(ram) /\ DOMAIN ram' = 1 .. Len(ram) - 1
      /\ \A x \in DOMAIN ram' : x + 1 \in DOMAIN ram /\ ram'[x] = ram[x + 1]
  BY <1>1, RamFields
<1>3. \A x, y \in DOMAIN ram' : x < y => x + 1 < y + 1
  BY <1>2
<1> QED BY <1>2, <1>3 DEF CopiesOrdered

\* A copy is found in the log, and nothing is written.
LEMMA SoundSkips ==
    ASSUME Shape, Sound, pc = "restore", pc' = "restore", ram # <<>>, ram' = Tail(ram),
           UNCHANGED <<log, waiting, defragFail>>
    PROVE  Sound'
<1>1. ram \in Seq(Copies) /\ waiting # None
  BY DEF Shape, TypeOK, Placed
<1>2. /\ Len(ram) \in Nat /\ DOMAIN ram = 1 .. Len(ram) /\ DOMAIN ram' = 1 .. Len(ram) - 1
      /\ \A x \in DOMAIN ram' : x + 1 \in DOMAIN ram /\ ram'[x] = ram[x + 1]
      /\ \A z \in DOMAIN ram : ram[z].at \in Nat /\ Cells(ram[z].key, ram[z].val) \in Nat
  BY <1>1, RamFields
<1>3. BlocksWhole' /\ LiveBlocks'
  BY DEF Sound, BlocksWhole, LiveBlocks, Writing
<1>4. CopiesOrdered /\ CopiesOrdered'
  BY <1>1, CopiesOrderedTail DEF Sound
<1>5. RestoringFailed'
  BY <1>2 DEF Sound, RestoringFailed, CopyOf
<1>6. RestoringErased'
  <2>1. CASE defragFail
    BY <2>1 DEF RestoringErased
  <2>2. CASE ~defragFail
    <3>1. /\ \A x \in DOMAIN ram, i \in DOMAIN log : log[i].garbage \/ log[i].key # ram[x].key
          /\ End(log) <= ram[1].at
      BY <1>1, <2>2 DEF Sound, RestoringErased
    <3>2. \A x \in DOMAIN ram', i \in DOMAIN log' : log'[i].garbage \/ log'[i].key # ram'[x].key
      BY <1>2, <3>1
    <3>3. ram' # <<>> => End(log') <= ram'[1].at
      <4>1. SUFFICES ASSUME ram' # <<>> PROVE End(log') <= ram'[1].at
        OBVIOUS
      <4>2. ram' \in Seq(Copies)
        BY <1>1, RamFields
      <4>3. 1 \in DOMAIN ram'
        BY <4>1, <4>2, RamFields
      <4>4. 1 \in DOMAIN ram /\ 2 \in DOMAIN ram /\ ram'[1] = ram[2]
        BY <1>2, <4>3
      <4>5. ram[1].at + Cells(ram[1].key, ram[1].val) <= ram[2].at
        BY <1>4, <4>4 DEF CopiesOrdered
      <4>6. End(log) \in Nat
        BY EndIsLast, ShapeParts
      <4>7. ram[1].at \in Nat /\ ram[2].at \in Nat /\ Cells(ram[1].key, ram[1].val) \in Nat
        BY <1>1, <4>4, RamFields
      <4>8. End(log) <= ram[2].at
        BY <3>1, <4>5, <4>6, <4>7
      <4>9. log' = log
        OBVIOUS
      <4> QED BY <4>4, <4>8, <4>9
    <3> QED BY <3>2, <3>3 DEF RestoringErased
  <2> QED BY <2>1, <2>2
<1>7. Copying'
  BY DEF Copying
<1> QED BY <1>3, <1>4, <1>5, <1>6, <1>7 DEF Sound

\* The block that __sys_setenv takes for the old one.
LEMMA OldBlock ==
    ASSUME ValuesAreNoNames, Settled(log), NEW k \in Keys, NEW v \in Values,
           __sys_setenv(k, v)
    PROVE  LET old == GetEnvBlockByName(log, k)
           IN  /\ \/ /\ sys_getenv(log, k) = v \/ (old # 0 /\ log[old].perm)
                     /\ Return(log, k, v, "success")
                  \/ /\ sys_getenv(log, k) # v /\ ~(old # 0 /\ log[old].perm)
                     /\ End(log) + Cells(k, v) <= SpaceCells
                     /\ WriteVarNum(log, k, v, old)
                  \/ /\ sys_getenv(log, k) # v
                     /\ waiting = None /\ Defrag(log, [key |-> k, val |-> v])
                  \/ /\ sys_getenv(log, k) # v
                     /\ ~(End(log) + Cells(k, v) <= SpaceCells)
                     /\ Return(log, k, v, "exhausted")
               /\ \/ /\ \A j \in DOMAIN log : log[j].garbage \/ log[j].key # k
                     /\ old = 0 /\ sys_getenv(log, k) = None
                  \/ /\ old \in DOMAIN log /\ ~log[old].garbage /\ log[old].key = k
                     /\ old # 0 /\ sys_getenv(log, k) = log[old].val
<1>1. /\ ~Torn(log, k)
      /\ \/ /\ \A j \in DOMAIN log : log[j].garbage \/ log[j].key # k
            /\ GetEnvBlockByName(log, k) = 0 /\ sys_getenv(log, k) = None
         \/ \E i \in DOMAIN log :
               /\ ~log[i].garbage /\ log[i].key = k /\ i # 0
               /\ GetEnvBlockByName(log, k) = i /\ sys_getenv(log, k) = log[i].val
               /\ log[i].val \in Values /\ log[i].val # None
  BY LookupSettled
<1>2. (IF sys_getenv(log, k) = None THEN 0 ELSE GetEnvBlockByName(log, k))
      = GetEnvBlockByName(log, k)
  BY <1>1
<1> QED BY <1>1, <1>2 DEF __sys_setenv

\* A new block is begun.
LEMMA SoundWriteVarNum ==
    ASSUME ValuesAreNoNames, Shape, Sound, ~Writing, pc # "copy",
           NEW k \in Keys, NEW v \in Values, NEW old,
           \/ /\ \A j \in DOMAIN log : log[j].garbage \/ log[j].key # k
              /\ old = 0 /\ sys_getenv(log, k) = None
           \/ /\ old \in DOMAIN log /\ ~log[old].garbage /\ log[old].key = k
              /\ old # 0 /\ sys_getenv(log, k) = log[old].val,
           sys_getenv(log, k) # v,
           waiting # None => /\ pc = "restore" /\ ram # <<>>
                             /\ k = ram[1].key /\ v = ram[1].val,
           WriteVarNum(log, k, v, old)
    PROVE  Sound'
<1>1. Good(log) /\ Settled(log) /\ ram \in Seq(Copies)
  BY ShapeParts, SoundSettled DEF OtherTypes
<1>2. log' = Append(log, NewBlock(log, k, v))
  BY DEF WriteVarNum, NewBlock
<1>3. /\ Good(log') /\ Len(log') = Len(log) + 1 /\ DOMAIN log' = 1 .. Len(log) + 1
      /\ \A i \in DOMAIN log : log'[i] = log[i]
      /\ log'[Len(log')] = NewBlock(log, k, v)
  BY <1>1, <1>2, AppendGood
<1>4. /\ log'[Len(log')].key = k /\ log'[Len(log')].val = v
      /\ ~log'[Len(log')].garbage /\ log'[Len(log')].at = End(log)
  BY <1>3 DEF NewBlock
<1>5. DOMAIN log = 1 .. Len(log) /\ Len(log) \in Nat
  BY <1>1, BlockFields DEF Good
<1>6. \A i \in DOMAIN log' : i = Len(log') \/ (i \in DOMAIN log /\ log'[i] = log[i])
  BY <1>3, <1>5
<1>7. /\ pc' = "write" /\ UNCHANGED <<waiting, ram, defragFail>>
      /\ cur'.key = k /\ cur'.val = v /\ cur'.old = old
  BY DEF WriteVarNum
<1>8. BlocksWhole'
  BY <1>1, <1>6, <1>7 DEF BlocksWhole, Settled
<1>9. LiveBlocks'
  <2>1. ASSUME NEW i \in DOMAIN log', NEW j \in DOMAIN log', i < j,
               ~log'[i].garbage, ~log'[j].garbage, log'[i].key = log'[j].key
        PROVE  i = old /\ j = Len(log')
    <3>1. i \in DOMAIN log /\ log'[i] = log[i]
      BY <1>3, <1>5, <2>1
    <3>2. j = Len(log')
      <4>1. SUFFICES ASSUME j \in DOMAIN log, log'[j] = log[j] PROVE FALSE
        BY <1>6
      <4>2. i = j
        BY <1>1, <2>1, <3>1, <4>1 DEF Settled
      <4> QED BY <1>3, <2>1, <4>2
    <3>3. log[i].key = k /\ ~log[i].garbage
      BY <1>4, <2>1, <3>1, <3>2
    <3>4. i = old
      BY <1>1, <3>1, <3>3 DEF Settled
    <3> QED BY <3>2, <3>4
  <2>2. old # 0 => ~log'[old].garbage /\ log'[old].key = k
    BY <1>3
  <2> QED BY <1>4, <1>7, <2>1, <2>2 DEF LiveBlocks, Writing
<1>10. waiting' # None => CopiesOrdered'
  BY <1>7 DEF Sound, CopiesOrdered
<1>11. Copying'
  BY <1>7 DEF Copying
<1>12. waiting # None => ~defragFail
  <2> SUFFICES ASSUME waiting # None, defragFail PROVE FALSE
    OBVIOUS
  <2>1. 1 \in DOMAIN ram
    BY <1>1, RamFields
  <2>2. PICK i \in DOMAIN log : CopyOf(1, i)
    BY <2>1 DEF Sound, RestoringFailed
  <2>3. log[i].key = k /\ ~log[i].garbage /\ log[i].val = v
    BY <2>2 DEF CopyOf
  <2>4. old = i
    BY <1>1, <2>3 DEF Settled
  <2> QED BY <2>3, <2>4
<1>13. RestoringFailed'
  BY <1>7, <1>12 DEF RestoringFailed
<1>14. RestoringErased'
  <2> SUFFICES ASSUME waiting # None
               PROVE  RestoringErased'
    BY <1>7 DEF RestoringErased
  <2>1. 1 \in DOMAIN ram /\ pc = "restore" /\ ~defragFail
    BY <1>1, <1>12, RamFields
  <2>2. /\ \A x \in DOMAIN ram, i \in DOMAIN log : log[i].garbage \/ log[i].key # ram[x].key
        /\ End(log) <= ram[1].at
    BY <2>1 DEF Sound, RestoringErased
  <2>3. old = 0
    BY <2>1, <2>2
  <2>4. \A x \in DOMAIN ram : ram[x].key = k => x = 1
    <3> SUFFICES ASSUME NEW x \in DOMAIN ram, ram[x].key = k, x # 1 PROVE FALSE
      OBVIOUS
    <3>1. 1 < x
      BY <1>1, RamFields
    <3> QED BY <2>1, <3>1 DEF Sound, CopiesOrdered
  <2>5. \A x \in DOMAIN ram', i \in DOMAIN log' :
           ~log'[i].garbage /\ log'[i].key = ram'[x].key => x = 1 /\ i = Len(log')
    BY <1>4, <1>6, <1>7, <2>2, <2>4
  <2> QED BY <1>4, <1>7, <2>2, <2>3, <2>5 DEF RestoringErased
<1> QED BY <1>8, <1>9, <1>10, <1>11, <1>13, <1>14 DEF Sound

\* __sys_setenv up to its first write keeps Sound.
LEMMA SoundSetenv ==
    ASSUME ValuesAreNoNames, Shape, Sound, pc \in {"idle", "restore", "retry"},
           NEW k \in Keys, NEW v \in Values,
           pc = "restore" => ram # <<>> /\ k = ram[1].key /\ v = ram[1].val,
           __sys_setenv(k, v)
    PROVE  Sound'
<1> DEFINE old == GetEnvBlockByName(log, k)
<1>1. (waiting # None <=> pc = "restore") /\ ~Writing /\ pc # "copy"
  BY DEF Shape, Placed, Writing
<1>2. Settled(log)
  BY <1>1, SoundSettled
<1>3. \/ \E s : Return(log, k, v, s)
      \/ sys_getenv(log, k) # v /\ WriteVarNum(log, k, v, old)
      \/ Defrag(log, [key |-> k, val |-> v])
  BY <1>2, OldBlock
<1>4. \/ /\ \A j \in DOMAIN log : log[j].garbage \/ log[j].key # k
         /\ old = 0 /\ sys_getenv(log, k) = None
      \/ /\ old \in DOMAIN log /\ ~log[old].garbage /\ log[old].key = k
         /\ old # 0 /\ sys_getenv(log, k) = log[old].val
  BY <1>2, OldBlock
<1> HIDE DEF old
<1>5. CASE \E s : Return(log, k, v, s)
  <2>1. CASE waiting = None
    <3>1. log' = log /\ waiting' = None /\ pc' = "idle"
      BY <1>5, <2>1 DEF Return
    <3> QED BY <1>2, <3>1, SoundIdle
  <2>2. CASE waiting # None
    <3>1. pc' = "restore" /\ ram' = Tail(ram) /\ UNCHANGED <<log, waiting, defragFail>>
      BY <1>5, <2>2 DEF Return
    <3> QED BY <1>1, <2>2, <3>1, SoundSkips
  <2> QED BY <2>1, <2>2
<1>6. CASE sys_getenv(log, k) # v /\ WriteVarNum(log, k, v, old)
  BY <1>1, <1>4, <1>6, SoundWriteVarNum
<1>7. CASE Defrag(log, [key |-> k, val |-> v])
  BY <1>2, <1>7, SoundDefrag
<1> QED BY <1>3, <1>5, <1>6, <1>7

\* The last block is written further.
LEMMA SoundWrites ==
    ASSUME Shape, Sound, pc = "write", pc' = "write",
           Len(log') = Len(log), DOMAIN log' = DOMAIN log,
           \A j \in DOMAIN log : j # Len(log) => log'[j] = log[j],
           log'[Len(log)].key = log[Len(log)].key, log'[Len(log)].val = log[Len(log)].val,
           log'[Len(log)].garbage = log[Len(log)].garbage,
           log'[Len(log)].at = log[Len(log)].at,
           UNCHANGED <<cur, waiting, ram, pos, defragFail>>
    PROVE  Sound'
<1>1. \A j \in DOMAIN log : /\ log'[j].key = log[j].key /\ log'[j].val = log[j].val
                            /\ log'[j].garbage = log[j].garbage /\ log'[j].at = log[j].at
  OBVIOUS
<1>2. DOMAIN log = 1 .. Len(log) /\ Len(log) \in Nat
  BY BlockFields DEF Shape, TypeOK
<1>3. cur.old # 0 => cur.old \in DOMAIN log
  BY <1>2 DEF Shape, Placed, Writing
<1>4. log # <<>>
  BY DEF Shape, Placed, Writing
<1>5. Len(log) \in DOMAIN log
  BY <1>4, EndIsLast, ShapeParts
<1>6. BlocksWhole'
  BY DEF Sound, BlocksWhole
<1>7. LiveBlocks'
  BY <1>1, <1>3, <1>5 DEF Sound, LiveBlocks, Writing
<1>8. waiting' # None => CopiesOrdered'
  BY DEF Sound, CopiesOrdered
<1>9. Copying' /\ RestoringFailed'
  BY DEF Sound, Copying, RestoringFailed
<1>10. RestoringErased'
  BY <1>1, <1>5 DEF Sound, RestoringErased
<1> QED BY <1>6, <1>7, <1>8, <1>9, <1>10 DEF Sound

\* The write of the header keeps Sound.
LEMMA SoundWriteHeader ==
    ASSUME Shape, Sound, WriteHeader
    PROVE  Sound'
<1> DEFINE l == log[Len(log)]
           b == [[l EXCEPT !.stage = "head"] EXCEPT !.cells = Cells(cur.key, cur.val)]
<1>1. /\ b \in Block /\ b.at = l.at /\ b.key = l.key /\ b.val = l.val
      /\ b.garbage = l.garbage /\ Len(log) \in DOMAIN log
      /\ log' = [log EXCEPT ![Len(log)] = b]
  BY HeaderWritten
<1>2. log \in Seq(Block)
  BY DEF Shape, TypeOK
<1> HIDE DEF b, l
<1>3. /\ Len(log') = Len(log) /\ DOMAIN log' = DOMAIN log /\ log'[Len(log)] = b
      /\ \A j \in DOMAIN log : j # Len(log) => log'[j] = log[j]
  BY <1>1, <1>2, Replaced
<1>4. /\ pc = "write" /\ pc' = "write" /\ UNCHANGED <<cur, waiting, ram, pos, defragFail>>
  BY DEF WriteHeader
<1> QED BY <1>1, <1>3, <1>4, SoundWrites DEF l

\* The write of the name keeps Sound.
LEMMA SoundWriteName ==
    ASSUME Shape, Sound, WriteName
    PROVE  Sound'
<1> DEFINE l == log[Len(log)]
           d == [l EXCEPT !.stage = "name"]
<1>1. pc = "write" /\ pc' = "write" /\ UNCHANGED <<cur, waiting, ram, pos, defragFail>>
  BY DEF WriteName
<1>2. /\ d \in Block /\ d.at = l.at /\ d.key = l.key /\ d.val = l.val
      /\ d.garbage = l.garbage /\ Len(log) \in DOMAIN log
  BY <1>1, WrittenBlock
<1>3. log' = [log EXCEPT ![Len(log)] = d] /\ log \in Seq(Block)
  BY <1>2 DEF WriteName, Last, Shape, TypeOK
<1> HIDE DEF d, l
<1>4. /\ Len(log') = Len(log) /\ DOMAIN log' = DOMAIN log /\ log'[Len(log)] = d
      /\ \A j \in DOMAIN log : j # Len(log) => log'[j] = log[j]
  BY <1>2, <1>3, Replaced
<1> QED BY <1>1, <1>2, <1>4, SoundWrites DEF l

\* While a set writes, only the restoring loop of an erased log may wait for it,
\* and then there is no old block.
LEMMA WriterIsRestorer ==
    ASSUME Sound, Writing, waiting # None
    PROVE  /\ pc = "write" /\ cur.old = 0 /\ ~defragFail
           /\ cur.key = ram[1].key /\ cur.val = ram[1].val
           /\ log[Len(log)].at <= ram[1].at
  BY DEF Sound, RestoringFailed, RestoringErased, Writing

\* The write of the value keeps Sound.
LEMMA SoundWriteValue ==
    ASSUME Shape, Sound, WriteValue
    PROVE  Sound'
<1> DEFINE l == [log EXCEPT ![Last].stage = "whole"]
<1>1. /\ Good(l) /\ Len(l) = Len(log) /\ DOMAIN l = DOMAIN log /\ l # <<>>
      /\ l[Len(l)].key = log[Len(log)].key /\ l[Len(l)].val = log[Len(log)].val
      /\ l[Len(l)].garbage = log[Len(log)].garbage /\ l[Len(l)].stage = "whole"
      /\ l[Len(l)].at = log[Len(log)].at
      /\ l[Len(l)].cells = Cells(log[Len(log)].key, log[Len(log)].val)
      /\ \A j \in DOMAIN log : j # Len(log) => l[j] = log[j]
  BY ValueWritten
<1>2. pc = "write" /\ Writing
  BY DEF WriteValue, Writing
<1>3. \A j \in DOMAIN log : l[j].key = log[j].key /\ l[j].garbage = log[j].garbage
  BY <1>1
<1>4. DOMAIN log = 1 .. Len(log) /\ Len(log) \in Nat
  BY BlockFields DEF Shape, TypeOK
<1>5. \A j \in DOMAIN l : l[j].stage = "whole"
  BY <1>1 DEF Sound, BlocksWhole
<1>6. log' = l /\ UNCHANGED <<waiting, defragFail>>
      /\ (cur.old = 0 => cur' = Idle)
      /\ (cur.old # 0 => pc' = "mark" /\ UNCHANGED <<cur, ram>>)
      /\ (cur.old = 0 /\ waiting # None => pc' = "restore" /\ ram' = Tail(ram))
      /\ (cur.old = 0 /\ waiting = None => pc' = "idle")
  BY DEF WriteValue, Return
<1> HIDE DEF l
<1>7. CASE cur.old # 0
  <2>1. waiting = None
    BY <1>2, <1>7, WriterIsRestorer
  <2>2. cur.old \in DOMAIN log /\ Len(log) \in DOMAIN log
    BY <1>1, <1>2, <1>4, <1>7, EndIsLast DEF Shape, Placed, Writing
  <2>3. BlocksWhole' /\ LiveBlocks'
    BY <1>1, <1>2, <1>3, <1>5, <1>6, <1>7, <2>2 DEF Sound, BlocksWhole, LiveBlocks, Writing
  <2> QED BY <1>6, <1>7, <2>1, <2>3 DEF Sound, Copying, RestoringFailed, RestoringErased
<1>8. CASE cur.old = 0
  <2>1. ASSUME NEW i \in DOMAIN l, NEW j \in DOMAIN l, i < j,
               ~l[i].garbage, ~l[j].garbage, l[i].key = l[j].key
        PROVE  FALSE
    <3>1. i = cur.old
      BY <1>1, <1>3, <2>1 DEF Sound, LiveBlocks
    <3> QED BY <1>1, <1>4, <1>8, <3>1
  <2>2. Settled(l)
    <3>1. ASSUME NEW i \in DOMAIN l, NEW j \in DOMAIN l,
                 ~l[i].garbage, ~l[j].garbage, l[i].key = l[j].key
          PROVE  i = j
      <4>1. i < j \/ j < i \/ i = j
        BY <1>1, <1>4
      <4> QED BY <2>1, <3>1, <4>1
    <3> QED BY <1>1, <1>5, <3>1 DEF Settled, Good
  <2>3. CASE waiting = None
    BY <1>6, <1>8, <2>2, <2>3, SoundIdle
  <2>4. CASE waiting # None
    <3>1. /\ cur.key = ram[1].key /\ cur.val = ram[1].val /\ ~defragFail
          /\ log[Len(log)].at <= ram[1].at
      BY <1>2, <2>4, WriterIsRestorer
    <3>2. ram # <<>> /\ ram \in Seq(Copies)
          /\ log[Len(log)].key = cur.key /\ log[Len(log)].val = cur.val
      BY <1>2, <2>4 DEF Shape, TypeOK, Placed, Writing
    <3>3. CopiesOrdered /\ CopiesOrdered'
      BY <1>6, <1>8, <2>4, <3>2, CopiesOrderedTail DEF Sound
    <3>4. BlocksWhole' /\ LiveBlocks'
      BY <1>5, <1>6, <1>8, <2>1, <2>4 DEF BlocksWhole, LiveBlocks, Writing
    <3>5. \A x \in DOMAIN ram' : x + 1 \in DOMAIN ram /\ ram'[x] = ram[x + 1] /\ x + 1 # 1
      BY <1>6, <1>8, <2>4, <3>2, RamFields
    <3>6. \A x \in DOMAIN ram', i \in DOMAIN log' :
             log'[i].garbage \/ log'[i].key # ram'[x].key
      BY <1>1, <1>2, <1>3, <1>6, <2>4, <3>1, <3>5 DEF Sound, RestoringErased
    <3>7. ram' # <<>> => End(log') <= ram'[1].at
      <4> SUFFICES ASSUME ram' # <<>> PROVE End(log') <= ram'[1].at
        OBVIOUS
      <4>1. ram' \in Seq(Copies)
        BY <1>6, <1>8, <2>4, <3>2, RamFields
      <4>2. 1 \in DOMAIN ram'
        BY <4>1, RamFields
      <4>3. 1 \in DOMAIN ram /\ 2 \in DOMAIN ram /\ ram'[1] = ram[2]
        BY <3>2, <3>5, <4>2, RamFields
      <4>4. ram[1].at + Cells(ram[1].key, ram[1].val) <= ram[2].at
        BY <3>3, <4>3 DEF CopiesOrdered
      <4>5. ram[1].at \in Nat /\ ram[2].at \in Nat /\ Cells(ram[1].key, ram[1].val) \in Nat
        BY <3>2, <4>3, RamFields
      <4>6. End(l) = log[Len(log)].at + Cells(ram[1].key, ram[1].val)
        BY <1>1, <3>1, <3>2 DEF End
      <4>7. Len(log) \in DOMAIN log
        BY <1>1, EndIsLast
      <4>8. log[Len(log)].at \in Nat
        BY <4>7, BlockFields DEF Shape, TypeOK
      <4>9. End(l) <= ram[2].at
        BY <3>1, <4>4, <4>5, <4>6, <4>8
      <4> QED BY <1>6, <4>3, <4>9
    <3>8. RestoringErased' /\ RestoringFailed' /\ Copying'
      BY <1>6, <1>8, <2>4, <3>1, <3>6, <3>7 DEF RestoringErased, RestoringFailed, Copying
    <3> QED BY <3>3, <3>4, <3>8 DEF Sound
  <2> QED BY <2>3, <2>4
<1> QED BY <1>7, <1>8

\* What becomes of the log when the mark is set.
LEMMA OldMarked ==
    ASSUME Shape, Sound, MarkOld
    PROVE  /\ cur.old \in DOMAIN log /\ Len(log) \in DOMAIN log /\ cur.old # Len(log)
           /\ waiting = None /\ waiting' = None /\ pc' = "idle"
           /\ log' = EnvMakeGarbage(log, cur.old)
           /\ Settled(log')
           /\ DOMAIN log' = DOMAIN log
           /\ log'[cur.old].garbage
           /\ \A j \in DOMAIN log : j # cur.old => log'[j] = log[j]
           /\ ~log[cur.old].garbage /\ log[cur.old].key = cur.key
           /\ ~log[Len(log)].garbage /\ log[Len(log)].key = cur.key
           /\ log[Len(log)].val = cur.val
<1>1. Good(log) /\ Placed /\ pc = "mark" /\ Writing
  BY ShapeParts DEF MarkOld, Writing
<1>2. log \in Seq(Block)
  BY <1>1 DEF Good
<1>3. DOMAIN log = 1 .. Len(log) /\ Len(log) \in Nat
  BY <1>2, BlockFields
<1>4. waiting = None
  BY <1>1, WriterIsRestorer
<1>5. cur.old \in DOMAIN log /\ Len(log) \in DOMAIN log /\ cur.old < Len(log)
  <2>1. cur.old \in 0 .. Len(log) - 1 /\ cur.old # 0
    BY <1>1 DEF Placed
  <2> QED BY <1>3, <2>1
<1>6. log' = EnvMakeGarbage(log, cur.old) /\ waiting' = None /\ pc' = "idle"
  BY <1>4 DEF MarkOld, Return
<1>7. /\ log' \in Seq(Block) /\ DOMAIN log' = DOMAIN log
      /\ log'[cur.old].garbage /\ \A j \in DOMAIN log : j # cur.old => log'[j] = log[j]
      /\ \A j \in DOMAIN log : SameBlock(log[j], log'[j])
  BY <1>2, <1>5, <1>6, Marked
<1>8. ASSUME NEW i \in DOMAIN log', NEW j \in DOMAIN log', i < j,
             ~log'[i].garbage, ~log'[j].garbage, log'[i].key = log'[j].key
      PROVE  FALSE
  <2>1. log'[i] = log[i] /\ log'[j] = log[j]
    BY <1>7, <1>8
  <2>2. i = cur.old
    BY <1>7, <1>8, <2>1 DEF Sound, LiveBlocks
  <2> QED BY <1>7, <1>8, <2>2
<1>9. Settled(log')
  <2>1. ASSUME NEW i \in DOMAIN log', NEW j \in DOMAIN log',
               ~log'[i].garbage, ~log'[j].garbage, log'[i].key = log'[j].key
        PROVE  i = j
    <3>1. i < j \/ j < i \/ i = j
      BY <1>3, <1>7
    <3> QED BY <1>8, <2>1, <3>1
  <2>2. \A i \in DOMAIN log : log[i].stage = "whole"
    BY <1>1 DEF Sound, BlocksWhole
  <2>3. \A i \in DOMAIN log' : log'[i].stage = "whole"
    BY <1>7, <2>2 DEF SameBlock
  <2> QED BY <1>7, <2>1, <2>3 DEF Settled
<1>10. /\ ~log[cur.old].garbage /\ log[cur.old].key = cur.key
       /\ ~log[Len(log)].garbage /\ log[Len(log)].key = cur.key /\ log[Len(log)].val = cur.val
  BY <1>1 DEF Sound, LiveBlocks, Placed
<1> QED BY <1>3, <1>4, <1>5, <1>6, <1>7, <1>9, <1>10

\* The mark on the old block keeps Sound.
LEMMA SoundMarkOld ==
    ASSUME Shape, Sound, MarkOld
    PROVE  Sound'
<1>1. Settled(log') /\ waiting' = None /\ pc' = "idle"
  BY OldMarked
<1> QED BY <1>1, SoundIdle

\* Copying meets whole blocks only, and adds the next live one.
LEMMA BlockCopied ==
    ASSUME Shape, Sound, CopyBlock
    PROVE  LET i == NextLive(log, pos)
               c == [key |-> log[i].key, val |-> log[i].val, at |-> log[i].at]
           IN  /\ i \in DOMAIN log /\ i > pos /\ ~log[i].garbage
               /\ \A j \in DOMAIN log : j > pos /\ ~log[j].garbage => i <= j
               /\ c.key = log[i].key /\ c.val = log[i].val /\ c.at = log[i].at
               /\ ram' = Append(ram, c) /\ pos' = i
               /\ ram' \in Seq(Copies) /\ Len(ram') = Len(ram) + 1
               /\ DOMAIN ram' = 1 .. Len(ram) + 1
               /\ \A x \in DOMAIN ram : ram'[x] = ram[x]
               /\ ram'[Len(ram) + 1] = c
               /\ pc = "copy"
               /\ UNCHANGED <<log, pc, cur, waiting, defragFail, ret>>
<1> DEFINE i == NextLive(log, pos)
           c == [key |-> log[i].key, val |-> log[i].val, at |-> log[i].at]
<1>1. log \in Seq(Block) /\ pos \in Nat /\ ram \in Seq(Copies)
  BY DEF Shape, TypeOK
<1>2. i # 0 /\ pc = "copy"
  BY DEF CopyBlock
<1>3. /\ i \in DOMAIN log /\ i > pos /\ ~log[i].garbage
      /\ \A j \in DOMAIN log : j > pos /\ ~log[j].garbage => i <= j
  BY <1>1, <1>2, NextLiveFound
<1>4. ~BadChecksum(log[i])
  BY <1>2, <1>3 DEF Sound, BlocksWhole, BadChecksum
<1>5. /\ ram' = Append(ram, c) /\ pos' = i
      /\ UNCHANGED <<log, pc, cur, waiting, defragFail, ret>>
  BY <1>4 DEF CopyBlock
<1>6. log[i].key \in Keys /\ log[i].val \in Values /\ log[i].at \in Nat
  BY <1>1, <1>3, BlockFields
<1>7. c \in Copies /\ c.key = log[i].key /\ c.val = log[i].val /\ c.at = log[i].at
  BY <1>6 DEF Copies
<1> HIDE DEF i, c
<1>8. /\ ram' \in Seq(Copies) /\ Len(ram') = Len(ram) + 1
      /\ \A x \in 1 .. Len(ram) : ram'[x] = ram[x]
      /\ ram'[Len(ram) + 1] = c
  BY <1>1, <1>5, <1>7, AppendProperties
<1>9. DOMAIN ram' = 1 .. Len(ram) + 1 /\ DOMAIN ram = 1 .. Len(ram)
  BY <1>1, <1>8, RamFields
<1> QED BY <1>2, <1>3, <1>5, <1>7, <1>8, <1>9 DEF i, c

\* The copy of a block to RAM keeps Sound.
LEMMA SoundCopyBlock ==
    ASSUME Shape, Sound, CopyBlock
    PROVE  Sound'
<1> DEFINE i == NextLive(log, pos)
           n == Len(ram) + 1
<1>1. /\ i \in DOMAIN log /\ i > pos /\ ~log[i].garbage
      /\ \A j \in DOMAIN log : j > pos /\ ~log[j].garbage => i <= j
      /\ pos' = i /\ DOMAIN ram' = 1 .. n
      /\ \A x \in DOMAIN ram : ram'[x] = ram[x]
      /\ ram'[n].key = log[i].key /\ ram'[n].val = log[i].val /\ ram'[n].at = log[i].at
      /\ pc = "copy" /\ UNCHANGED <<log, pc, cur, waiting, defragFail>>
  BY BlockCopied
<1>2. log \in Seq(Block) /\ ram \in Seq(Copies) /\ pos \in Nat /\ waiting # None
  BY <1>1 DEF Shape, TypeOK, Placed
<1>3. DOMAIN log = 1 .. Len(log) /\ Len(log) \in Nat
      /\ DOMAIN ram = 1 .. Len(ram) /\ Len(ram) \in Nat
  BY <1>2, BlockFields, RamFields
<1>4. Settled(log)
  BY <1>1, SoundSettled DEF Writing
<1> HIDE DEF i
<1>5. \A x \in DOMAIN ram' : x = n \/ (x \in DOMAIN ram /\ x < n /\ ram'[x] = ram[x])
  BY <1>1, <1>3
<1>6. \A j \in DOMAIN log :
         /\ log[j].at + Cells(log[j].key, log[j].val) <= SpaceCells
         /\ log[j].cells = Cells(log[j].key, log[j].val)
  <2> TAKE j \in DOMAIN log
  <2>1. log[j].stage # "num"
    BY <1>4 DEF Settled
  <2>2. log[j].cells = Cells(log[j].key, log[j].val)
        /\ log[j].at + log[j].cells <= SpaceCells
    BY <2>1 DEF Shape, BlocksSized, BlocksContiguous
  <2> QED BY <2>2
<1>7. ASSUME NEW x \in DOMAIN ram
      PROVE  /\ ram[x].key # log[i].key
             /\ ram[x].at + Cells(ram[x].key, ram[x].val) <= log[i].at
  <2>1. PICK j \in DOMAIN log : j <= pos /\ CopyOf(x, j) /\ ram[x].at = log[j].at
    BY <1>1 DEF Sound, Copying
  <2>2. j < i
    BY <1>1, <1>2, <1>3, <2>1
  <2>3. ram[x].key # log[i].key
    <3>1. i # j
      BY <1>3, <2>2
    <3> QED BY <1>1, <1>4, <2>1, <3>1 DEF Settled, CopyOf
  <2>4. log[j].at + log[j].cells <= log[i].at
    BY <1>1, <2>2 DEF Shape, BlocksOrdered
  <2> QED BY <1>6, <2>1, <2>3, <2>4 DEF CopyOf
<1>8. CopiesOrdered'
  <2>1. CopiesOrdered
    BY <1>2 DEF Sound
  <2>2. \A x \in DOMAIN ram' : ram'[x].at + Cells(ram'[x].key, ram'[x].val) <= SpaceCells
    BY <1>1, <1>5, <1>6, <2>1 DEF CopiesOrdered
  <2>3. ASSUME NEW x \in DOMAIN ram', NEW y \in DOMAIN ram', x < y
        PROVE  /\ ram'[x].key # ram'[y].key
               /\ ram'[x].at + Cells(ram'[x].key, ram'[x].val) <= ram'[y].at
    <3>1. x \in DOMAIN ram /\ ram'[x] = ram[x]
      BY <1>1, <1>3, <1>5, <2>3
    <3>2. CASE y = n
      BY <1>1, <1>7, <3>1, <3>2
    <3>3. CASE y \in DOMAIN ram /\ ram'[y] = ram[y]
      BY <2>1, <2>3, <3>1, <3>3 DEF CopiesOrdered
    <3> QED BY <1>5, <3>2, <3>3
  <2> QED BY <2>2, <2>3 DEF CopiesOrdered
<1>9. Copying'
  <2>1. /\ ~defragFail
        /\ \A x \in DOMAIN ram : \E j \in DOMAIN log :
              j <= pos /\ CopyOf(x, j) /\ ram[x].at = log[j].at
        /\ \A j \in DOMAIN log :
              j <= pos /\ ~log[j].garbage => \E x \in DOMAIN ram : CopyOf(x, j)
    BY <1>1 DEF Sound, Copying
  <2>2. ASSUME NEW x \in DOMAIN ram'
        PROVE  \E j \in DOMAIN log' : j <= pos' /\ CopyOf(x, j)' /\ ram'[x].at = log'[j].at
    <3>1. CASE x = n
      BY <1>1, <1>3, <3>1 DEF CopyOf
    <3>2. CASE x \in DOMAIN ram /\ ram'[x] = ram[x]
      <4>1. PICK j \in DOMAIN log : j <= pos /\ CopyOf(x, j) /\ ram[x].at = log[j].at
        BY <2>1, <3>2
      <4>2. j <= pos'
        BY <1>1, <1>2, <1>3, <4>1
      <4> QED BY <1>1, <3>2, <4>1, <4>2 DEF CopyOf
    <3> QED BY <1>5, <3>1, <3>2
  <2>3. ASSUME NEW j \in DOMAIN log', j <= pos', ~log'[j].garbage
        PROVE  \E x \in DOMAIN ram' : CopyOf(x, j)'
    <3>1. CASE j <= pos
      <4>1. PICK x \in DOMAIN ram : CopyOf(x, j)
        BY <1>1, <2>1, <2>3, <3>1
      <4>2. x \in DOMAIN ram'
        BY <1>1, <1>3
      <4> QED BY <1>1, <4>1, <4>2 DEF CopyOf
    <3>2. CASE j > pos
      <4>1. j = i
        BY <1>1, <1>3, <2>3, <3>2
      <4>2. n \in DOMAIN ram'
        BY <1>1, <1>3
      <4> QED BY <1>1, <4>1, <4>2 DEF CopyOf
    <3> QED BY <1>1, <1>2, <1>3, <3>1, <3>2
  <2> QED BY <1>1, <2>1, <2>2, <2>3 DEF Copying
<1>10. BlocksWhole' /\ LiveBlocks'
  BY <1>1 DEF Sound, BlocksWhole, LiveBlocks, Writing
<1>11. RestoringFailed' /\ RestoringErased'
  BY <1>1 DEF Sound, Copying, RestoringFailed, RestoringErased
<1> QED BY <1>8, <1>9, <1>10, <1>11 DEF Sound

\* The erasure of the sector keeps Sound.
LEMMA SoundFormat ==
    ASSUME Shape, Sound, Format
    PROVE  Sound'
<1>1. pc = "copy" /\ pc' = "restore" /\ log' = <<>> /\ UNCHANGED <<ram, waiting, defragFail>>
  BY DEF Format
<1>2. DOMAIN log' = {}
  BY <1>1
<1>3. ~defragFail /\ waiting # None /\ ram \in Seq(Copies)
  BY <1>1 DEF Sound, Copying, Shape, TypeOK, Placed
<1>4. BlocksWhole' /\ LiveBlocks'
  BY <1>1, <1>2 DEF BlocksWhole, LiveBlocks, Writing
<1>5. CopiesOrdered'
  BY <1>1, <1>3 DEF Sound, CopiesOrdered
<1>6. ram # <<>> => End(log') <= ram[1].at
  <2>1. ram # <<>> => 1 \in DOMAIN ram
    BY <1>3, RamFields
  <2>2. ram # <<>> => ram[1].at \in Nat
    BY <1>3, <2>1, RamFields
  <2> QED BY <1>1, <2>2 DEF End
<1>7. Copying' /\ RestoringFailed' /\ RestoringErased'
  BY <1>1, <1>2, <1>3, <1>6 DEF Copying, RestoringFailed, RestoringErased
<1> QED BY <1>4, <1>5, <1>7 DEF Sound

\* A failing defragmentation keeps Sound.
LEMMA SoundDefragFails ==
    ASSUME Shape, Sound, DefragFails
    PROVE  Sound'
<1>1. pc = "copy" /\ pc' = "restore" /\ UNCHANGED <<log, cur, ram, waiting>> /\ defragFail'
  BY DEF DefragFails
<1>2. BlocksWhole' /\ LiveBlocks'
  BY <1>1 DEF Sound, BlocksWhole, LiveBlocks, Writing
<1>3. waiting' # None => CopiesOrdered'
  BY <1>1 DEF Sound, CopiesOrdered
<1>4. RestoringFailed'
  BY <1>1 DEF Sound, Copying, RestoringFailed, CopyOf
<1>5. Copying' /\ RestoringErased'
  BY <1>1 DEF Copying, RestoringErased
<1> QED BY <1>2, <1>3, <1>4, <1>5 DEF Sound

\* The copy that is restored next.
LEMMA NextCopy ==
    ASSUME Shape, RestoreBlock
    PROVE  /\ ram # <<>> /\ ram \in Seq(Copies) /\ 1 \in DOMAIN ram /\ Head(ram) = ram[1]
           /\ ram[1].key \in Keys /\ ram[1].val \in Values
<1>1. ram # <<>> /\ ram \in Seq(Copies)
  BY DEF RestoreBlock, Shape, TypeOK
<1> QED BY <1>1, RamFields

\* The restoring loop keeps Sound.
LEMMA SoundRestoreBlock ==
    ASSUME ValuesAreNoNames, Shape, Sound, RestoreBlock
    PROVE  Sound'
<1>1. /\ ram # <<>> /\ Head(ram) = ram[1]
      /\ ram[1].key \in Keys /\ ram[1].val \in Values
  BY NextCopy
<1>2. pc = "restore" /\ __sys_setenv(ram[1].key, ram[1].val)
  BY <1>1 DEF RestoreBlock
<1> QED BY <1>1, <1>2, SoundSetenv

\* The return of sys_defragenv keeps Sound.
LEMMA SoundDefragged ==
    ASSUME Shape, Sound, Defragged
    PROVE  Sound'
<1>1. pc = "restore" /\ log' = log /\ waiting' = None /\ pc' \in {"idle", "retry"}
  BY DEF Defragged
<1>2. Settled(log)
  BY <1>1, SoundSettled DEF Writing
<1> QED BY <1>1, <1>2, SoundIdle

\* The set that starts again after sys_defragenv keeps Sound.
LEMMA SoundRetry ==
    ASSUME ValuesAreNoNames, Shape, Sound, Retry
    PROVE  Sound'
<1>1. pc = "retry" /\ cur.key \in Keys /\ cur.val \in Values /\ __sys_setenv(cur.key, cur.val)
  BY DEF Retry, Shape, Placed
<1> QED BY <1>1, SoundSetenv

\* No call runs in a settled log.
LEMMA IdleSettled ==
    ASSUME Shape, Sound, pc = "idle"
    PROVE  Settled(log) /\ waiting = None
<1>1. ~Writing /\ waiting = None
  BY DEF Writing, Shape, Placed
<1> QED BY <1>1, SoundSettled

\* sys_getenv keeps Sound.
LEMMA SoundGet ==
    ASSUME ValuesAreNoNames, Shape, Sound, NEW k \in Keys, Getenv(k)
    PROVE  Sound' /\ log' = log
<1>1. Settled(log) /\ waiting = None
  BY IdleSettled DEF Getenv
<1>2. ~Torn(log, k)
  BY <1>1, LookupSettled
<1>3. UNCHANGED <<log, pc, waiting>> /\ pc = "idle"
  BY <1>2 DEF Getenv
<1> QED BY <1>1, <1>3, SoundIdle

\* Marking a block keeps a log settled.
LEMMA SettledMarked ==
    ASSUME NEW l, Settled(l), NEW i \in DOMAIN l
    PROVE  Settled(EnvMakeGarbage(l, i))
<1> DEFINE n == EnvMakeGarbage(l, i)
<1>1. l \in Seq(Block)
  BY DEF Settled
<1>2. /\ n \in Seq(Block) /\ DOMAIN n = DOMAIN l
      /\ n[i].garbage /\ \A j \in DOMAIN l : j # i => n[j] = l[j]
      /\ \A j \in DOMAIN l : SameBlock(l[j], n[j])
  BY <1>1, Marked
<1> HIDE DEF n
<1>3. \A j \in DOMAIN n : n[j].stage = "whole"
  BY <1>2 DEF Settled, SameBlock
<1>4. \A j \in DOMAIN n : ~n[j].garbage => ~l[j].garbage /\ n[j].key = l[j].key
  BY <1>2
<1>5. Settled(n)
  BY <1>2, <1>3, <1>4 DEF Settled
<1> QED BY <1>5 DEF n

\* sys_unsetenv keeps Sound.
LEMMA SoundUnset ==
    ASSUME ValuesAreNoNames, Shape, Sound, NEW k \in Keys, Unsetenv(k)
    PROVE  Sound'
<1>1. Settled(log) /\ waiting = None
  BY IdleSettled DEF Unsetenv
<1>2. GetEnvBlockByName(log, k) # 0 => GetEnvBlockByName(log, k) \in DOMAIN log
  BY <1>1, Found DEF Settled
<1>3. Settled(log')
  BY <1>1, <1>2, SettledMarked DEF Unsetenv
<1> QED BY <1>1, <1>3, SoundIdle DEF Unsetenv

\* Before a power failure a read by number finds no torn block.
LEMMA NoReadByNumber ==
    ASSUME Shape, Sound, ReadByNumber
    PROVE  FALSE
<1>1. Settled(log)
  BY IdleSettled DEF ReadByNumber
<1> QED BY <1>1 DEF ReadByNumber, Settled, BadChecksum

\* sys_setenv keeps Sound.
LEMMA SoundSet ==
    ASSUME ValuesAreNoNames, Shape, Sound, NEW k \in Keys, NEW v \in Values, Setenv(k, v)
    PROVE  Sound'
<1>1. Settled(log) /\ waiting = None /\ pc = "idle"
  BY IdleSettled DEF Setenv
<1>2. CASE k \in ReadOnly
  BY <1>1, <1>2, SoundIdle DEF Setenv
<1>3. CASE k \notin ReadOnly
  BY <1>1, <1>3, SoundSetenv DEF Setenv
<1> QED BY <1>2, <1>3

\* A call of sys_defragenv keeps Sound.
LEMMA SoundDefragenv ==
    ASSUME Shape, Sound, Defragenv
    PROVE  Sound'
<1>1. Settled(log)
  BY IdleSettled DEF Defragenv
<1> QED BY <1>1, SoundDefrag DEF Defragenv

\* crashed is never reset, so that every step of a state with power is one.
LEMMA SoundNext ==
    ASSUME ValuesAreNoNames, Shape, Sound, pc # "boot", [Next]_vars, ~crashed'
    PROVE  Sound'
<1>1. CASE UNCHANGED vars
  BY <1>1 DEF vars, Sound, BlocksWhole, LiveBlocks, CopiesOrdered, Copying, RestoringFailed,
              RestoringErased, CopyOf, Writing
<1>2. CASE Step
  BY <1>2, SoundWriteHeader, SoundWriteName, SoundWriteValue, SoundMarkOld,
     SoundCopyBlock, SoundFormat, SoundRestoreBlock, SoundDefragged, SoundRetry
     DEF Step, Booted
<1>3. CASE \E k \in Keys : Getenv(k) \/ Unsetenv(k)
  BY <1>3, SoundGet, SoundUnset
<1>4. CASE \E k \in Keys, v \in Values : Setenv(k, v)
  BY <1>4, SoundSet
<1>5. CASE Defragenv \/ ReadByNumber \/ DefragFails
  BY <1>5, SoundDefragenv, NoReadByNumber, SoundDefragFails
<1>6. CASE PowerFailure \/ LoaderReads
  BY <1>6 DEF PowerFailure, LoaderReads
<1> QED BY <1>1, <1>2, <1>3, <1>4, <1>5, <1>6 DEF Next, Spin

\* Only a power failure leads to the boot loader.
LEMMA KernelRuns ==
    ASSUME [Next]_vars, ~crashed', pc # "boot"
    PROVE  pc' # "boot"
<1> USE DEF Return, WriteVarNum, Defrag, EnterAgain, __sys_setenv
<1>1. CASE UNCHANGED vars
  BY <1>1 DEF vars
<1>2. CASE Step
  BY <1>2 DEF Step, WriteHeader, WriteName, WriteValue, MarkOld, CopyBlock, Format,
              RestoreBlock, Defragged, Retry, Booted
<1>3. CASE Next /\ ~Step
  BY <1>1, <1>3 DEF Next, Getenv, Unsetenv, Setenv, Defragenv, ReadByNumber, Spin,
              DefragFails, PowerFailure, LoaderReads
<1> QED BY <1>1, <1>2, <1>3

\* A power failure is not forgotten.
LEMMA CrashedStays ==
    ASSUME [Next]_vars, crashed
    PROVE  crashed'
<1> USE DEF Return, WriteVarNum, Defrag, EnterAgain, __sys_setenv
<1>1. CASE UNCHANGED vars
  BY <1>1 DEF vars
<1>2. CASE Step
  BY <1>2 DEF Step, WriteHeader, WriteName, WriteValue, MarkOld, CopyBlock, Format,
              RestoreBlock, Defragged, Retry, Booted
<1>3. CASE Next /\ ~Step
  BY <1>1, <1>3 DEF Next, Getenv, Unsetenv, Setenv, Defragenv, ReadByNumber, Spin,
              DefragFails, PowerFailure, LoaderReads
<1> QED BY <1>1, <1>2, <1>3

\* Intact says Sound of the states before the first power failure.
LEMMA IntactSound == Intact <=> (~crashed => pc # "boot" /\ Sound)
  BY DEF Intact, Sound

\* Every step keeps Intact.
LEMMA IntactNext ==
    ASSUME ValuesAreNoNames, Shape, Intact, [Next]_vars
    PROVE  Intact'
<1>1. CASE crashed'
  BY <1>1 DEF Intact
<1>2. CASE ~crashed'
  <2>1. ~crashed
    BY <1>2, CrashedStays
  <2>2. Sound /\ pc # "boot"
    BY <2>1, IntactSound
  <2>3. Sound' /\ pc' # "boot"
    BY <1>2, <2>2, SoundNext, KernelRuns
  <2> QED BY <2>3 DEF Intact, Sound
<1> QED BY <1>1, <1>2

\* Intact holds in the first state.
LEMMA IntactInit ==
    ASSUME Init
    PROVE  Intact
<1>1. Shape /\ waiting = None /\ pc = "idle"
  BY ShapeInit DEF Init
<1>2. log = <<>> \/ \E b : log = <<b>> /\ b.stage = "whole"
  BY DEF Init
<1>3. \A i \in DOMAIN log : i = 1 /\ log[i].stage = "whole"
  BY <1>2
<1>4. BlocksWhole /\ LiveBlocks
  BY <1>1, <1>3 DEF BlocksWhole, LiveBlocks, Writing
<1> QED BY <1>1, <1>4 DEF Intact, Copying, RestoringFailed, RestoringErased

\* Before the first power failure Intact holds in every reachable state, if no
\* value is the name of a dynamic variable.
THEOREM IntactHolds ==
    ASSUME ValuesAreNoNames
    PROVE  Spec => []Intact
<1>1. Init => Intact
  BY IntactInit
<1>2. Shape /\ Intact /\ [Next]_vars => Intact'
  BY IntactNext
<1> QED BY <1>1, <1>2, ShapeHolds, PTL DEF Spec

\* No variable has two blocks that count between two calls: a set marks the old
\* block of its variable, and restoring a copied log writes each variable once.
THEOREM OneLive ==
    ASSUME ValuesAreNoNames
    PROVE  Spec => []OneLiveBlock
<1>1. Shape /\ Intact => OneLiveBlock
  <2> SUFFICES ASSUME Shape, Intact, ~crashed, pc # "write", pc # "mark"
               PROVE  \A i, j \in DOMAIN log :
                         log[i].key = log[j].key /\ ~log[i].garbage /\ ~log[j].garbage
                         => i = j
    BY DEF OneLiveBlock
  <2>1. Sound /\ ~Writing
    BY IntactSound DEF Writing
  <2>2. Settled(log)
    BY <2>1, SoundSettled
  <2> QED BY <2>2 DEF Settled
<1> QED BY <1>1, ShapeHolds, IntactHolds, PTL

-----------------------------------------------------------------------------
(* What a variable is to its callers. *)

\* sys_getenv returns a value or nothing.
LEMMA LookupType ==
    ASSUME NEW l \in Seq(Block), NEW k
    PROVE  sys_getenv(l, k) \in Values \union {None}
<1> DEFINE g == GetEnvBlockByName(l, k)
<1>1. g # 0 => g \in DOMAIN l
  BY Found
<1>2. g # 0 => l[g].val \in Values
  BY <1>1, BlockFields
<1> QED BY <1>2 DEF sys_getenv

\* Two logs that agree on the live blocks of a variable agree on its value.
LEMMA SameLive ==
    ASSUME ValuesAreNoNames, NEW l \in Seq(Block), NEW n \in Seq(Block), NEW k \in Keys,
           DOMAIN n = DOMAIN l,
           \A j \in DOMAIN l : \/ n[j] = l[j]
                               \/ /\ l[j].garbage \/ l[j].key # k
                                  /\ n[j].garbage \/ n[j].key # k
    PROVE  sys_getenv(n, k) = sys_getenv(l, k)
<1> DEFINE I == {i \in DOMAIN l : ~l[i].garbage /\ Matches(k, l[i])}
           J == {i \in DOMAIN n : ~n[i].garbage /\ Matches(k, n[i])}
<1>1. \A j \in DOMAIN l : l[j] \in Block /\ n[j] \in Block
  BY BlockFields
<1>2. \A j \in DOMAIN l : /\ Matches(k, l[j]) => l[j].key = k
                          /\ Matches(k, n[j]) => n[j].key = k
  BY <1>1, MatchesKey
<1>3. I = J
  BY <1>2
<1>4. GetEnvBlockByName(l, k) = GetEnvBlockByName(n, k)
  BY <1>3 DEF GetEnvBlockByName
<1>5. LET g == GetEnvBlockByName(l, k)
      IN  g # 0 => g \in DOMAIN l /\ ~l[g].garbage /\ Matches(k, l[g])
  BY Found
<1>6. LET g == GetEnvBlockByName(l, k) IN g # 0 => n[g] = l[g]
  BY <1>2, <1>5
<1> QED BY <1>4, <1>6 DEF sys_getenv

\* The value of a variable is decided by the first p blocks: the one after them
\* is not whole, or of another variable, or comes second.
Decides(l, p, k) ==
    /\ l \in Seq(Block) /\ p \in Nat /\ p <= Len(l) /\ Len(l) <= p + 1
    /\ \A i \in 1 .. p : l[i].stage = "whole"
    /\ \A i, j \in 1 .. p :
          ~l[i].garbage /\ ~l[j].garbage /\ l[i].key = l[j].key => i = j
    /\ Len(l) = p + 1 => \/ l[p + 1].stage # "whole" \/ l[p + 1].key # k
                         \/ \E i \in 1 .. p : ~l[i].garbage /\ l[i].key = k

\* A lookup that the first p blocks decide returns what these say.
LEMMA LookupDecided ==
    ASSUME ValuesAreNoNames, NEW l, NEW p, NEW k \in Keys, Decides(l, p, k)
    PROVE  /\ \A i \in 1 .. p : ~l[i].garbage /\ l[i].key = k => sys_getenv(l, k) = l[i].val
           /\ (\A i \in 1 .. p : l[i].garbage \/ l[i].key # k) => sys_getenv(l, k) = None
<1>1. l \in Seq(Block) /\ p \in Nat /\ p <= Len(l) /\ Len(l) <= p + 1
  BY DEF Decides
<1>2. DOMAIN l = 1 .. Len(l) /\ Len(l) \in Nat
  BY <1>1, BlockFields
<1>3. \A i \in DOMAIN l : i \in 1 .. p \/ (i = p + 1 /\ Len(l) = p + 1)
  <2> DEFINE q == Len(l)
  <2>1. q \in Nat /\ p \in Nat /\ p <= q /\ q <= p + 1 /\ DOMAIN l = 1 .. q
    BY <1>1, <1>2
  <2> HIDE DEF q
  <2>2. \A i \in 1 .. q : i \in 1 .. p \/ (i = p + 1 /\ q = p + 1)
    BY <2>1
  <2> QED BY <2>1, <2>2 DEF q
<1>4. ASSUME NEW i \in 1 .. p, ~l[i].garbage, l[i].key = k
      PROVE  sys_getenv(l, k) = l[i].val
  <2>1. i \in DOMAIN l
    BY <1>1, <1>2
  <2>1a. l[i].stage = "whole"
    BY DEF Decides
  <2>2. ASSUME NEW j \in DOMAIN l, ~l[j].garbage, l[j].key = k PROVE i <= j
    <3>1. CASE j \in 1 .. p
      BY <1>4, <2>2, <3>1 DEF Decides
    <3>2. CASE j = p + 1
      BY <1>1, <3>2
    <3> QED BY <1>3, <3>1, <3>2
  <2> QED BY <1>1, <1>4, <2>1, <2>1a, <2>2, LookupHit
<1>5. ASSUME \A i \in 1 .. p : l[i].garbage \/ l[i].key # k
      PROVE  sys_getenv(l, k) = None
  <2>1. \A j \in DOMAIN l : ~l[j].garbage /\ l[j].key = k => l[j].stage # "whole"
    BY <1>3, <1>5 DEF Decides
  <2> QED BY <1>1, <2>1, LookupMiss
<1> QED BY <1>4, <1>5

\* Two logs with the same deciding prefix give the same value.
LEMMA SamePrefix ==
    ASSUME ValuesAreNoNames, NEW l, NEW n, NEW p, NEW k \in Keys,
           Decides(l, p, k), Decides(n, p, k), \A i \in 1 .. p : n[i] = l[i]
    PROVE  sys_getenv(n, k) = sys_getenv(l, k)
<1>1. CASE \A i \in 1 .. p : l[i].garbage \/ l[i].key # k
  BY <1>1, LookupDecided
<1>2. CASE \E i \in 1 .. p : ~l[i].garbage /\ l[i].key = k
  <2>1. PICK i \in 1 .. p : ~l[i].garbage /\ l[i].key = k
    BY <1>2
  <2>2. sys_getenv(l, k) = l[i].val
    BY <2>1, LookupDecided
  <2>3. sys_getenv(n, k) = n[i].val
    BY <2>1, LookupDecided
  <2> QED BY <2>2, <2>3
<1> QED BY <1>1, <1>2

\* The value of the copy of a variable.
CopyValue(r, k) == r[CHOOSE i \in {j \in DOMAIN r : r[j].key = k} : TRUE].val

\* The copy of a variable in RAM is found by its key.
LEMMA CopyIsUnique ==
    ASSUME NEW r, NEW x \in DOMAIN r, \A y \in DOMAIN r : r[y].key = r[x].key => y = x
    PROVE  CopyValue(r, r[x].key) = r[x].val
<1> DEFINE R == {j \in DOMAIN r : r[j].key = r[x].key}
<1>1. R = {x}
  OBVIOUS
<1>2. (CHOOSE i \in R : TRUE) = x
  BY <1>1
<1> QED BY <1>2 DEF CopyValue

Rewriting == waiting # None /\ pc # "copy"

\* The map is what the log says, but for the variables that are in RAM while the
\* log is rewritten.
LEMMA Viewed ==
    /\ \A k \in Keys :
          ~Rewriting \/ (\A x \in DOMAIN ram : ram[x].key # k) => EnvOf[k] = sys_getenv(log, k)
    /\ \A k \in Keys :
          Rewriting /\ (\E x \in DOMAIN ram : ram[x].key = k) => EnvOf[k] = CopyValue(ram, k)
    /\ EnvOf = [k \in Keys |-> EnvOf[k]]
<1>1. \A k \in Keys : EnvOf[k] =
         IF Rewriting /\ {i \in DOMAIN ram : ram[i].key = k} # {}
         THEN CopyValue(ram, k) ELSE sys_getenv(log, k)
  BY DEF EnvOf, Rewriting, CopyValue
<1>2. EnvOf = [k \in Keys |-> EnvOf[k]]
  BY DEF EnvOf
<1> QED BY <1>1, <1>2

\* EnvOf after a step, read from the log or from the copies.
LEMMA ViewedNext ==
    /\ \A k \in Keys :
          ~Rewriting' \/ (\A x \in DOMAIN ram' : ram'[x].key # k) => EnvOf'[k] = sys_getenv(log', k)
    /\ \A k \in Keys :
          Rewriting' /\ (\E x \in DOMAIN ram' : ram'[x].key = k) => EnvOf'[k] = CopyValue(ram', k)
    /\ EnvOf' = [k \in Keys |-> EnvOf'[k]]
<1>1. \A k \in Keys : EnvOf'[k] =
         IF Rewriting' /\ {i \in DOMAIN ram' : ram'[i].key = k} # {}
         THEN CopyValue(ram', k) ELSE sys_getenv(log', k)
  BY DEF EnvOf, Rewriting, CopyValue
<1>2. EnvOf' = [k \in Keys |-> EnvOf'[k]]
  BY DEF EnvOf
<1> QED BY <1>1, <1>2

\* The copies are of different variables.
LEMMA CopiesDistinct ==
    ASSUME NEW r \in Seq(Copies), \A x, y \in DOMAIN r : x < y => r[x].key # r[y].key
    PROVE  \A x, y \in DOMAIN r : r[y].key = r[x].key => y = x
<1>1. DOMAIN r = 1 .. Len(r) /\ Len(r) \in Nat
  BY RamFields
<1>2. \A x, y \in DOMAIN r : x < y \/ y < x \/ x = y
  BY <1>1
<1> QED BY <1>2

-----------------------------------------------------------------------------
(* The log implements the map: every step is a step of EnvStore. *)

\* A call or an internal step of EnvStore is a step of EnvStore.
LEMMA CallStep ==
    ASSUME ~crashed, ~crashed',
           \/ Store!Internal
           \/ \E k \in Keys : Store!Get(k) \/ Store!Unset(k) \/ Store!UnsetFails(k)
           \/ \E k \in Keys, v \in Values :
                 Store!Set(k, v) \/ Store!Refuse(k, v) \/ Store!Exhausted(k, v)
           \/ \E s \in {"success", "exhausted"} : Store!Compacted(s)
    PROVE  Store!Next
  BY DEF Store!Next, Store!Call

\* EnvOf is unchanged if no variable changes.
LEMMA ViewSame ==
    ASSUME \A k \in Keys : EnvOf'[k] = EnvOf[k]
    PROVE  EnvOf' = EnvOf
  BY Viewed, ViewedNext

\* EnvOf changes as a set changes it.
LEMMA ViewSet ==
    ASSUME NEW k \in Keys, NEW v, EnvOf'[k] = v,
           \A j \in Keys : j # k => EnvOf'[j] = EnvOf[j]
    PROVE  EnvOf' = [EnvOf EXCEPT ![k] = v]
<1> DEFINE f == EnvOf
           g == EnvOf'
<1>1. f = [j \in Keys |-> f[j]] /\ g = [j \in Keys |-> g[j]]
  BY Viewed, ViewedNext
<1>2. g[k] = v /\ \A j \in Keys : j # k => g[j] = f[j]
  OBVIOUS
<1> HIDE DEF f, g
<1>3. g = [f EXCEPT ![k] = v]
  BY <1>1, <1>2
<1> QED BY <1>3 DEF f, g

\* Outside of the rewriting the map is what the log says.
LEMMA ViewIsLog ==
    /\ ~Rewriting => \A k \in Keys : EnvOf[k] = sys_getenv(log, k)
    /\ ~Rewriting' => \A k \in Keys : EnvOf'[k] = sys_getenv(log', k)
  BY Viewed, ViewedNext

\* The begin of a block changes no value.
LEMMA BegunSame ==
    ASSUME ValuesAreNoNames, Shape, Settled(log), NEW k \in Keys, NEW v \in Values,
           NEW old, WriteVarNum(log, k, v, old), NEW j \in Keys
    PROVE  sys_getenv(log', j) = sys_getenv(log, j)
<1>1. Good(log)
  BY ShapeParts
<1>2. log' = Append(log, NewBlock(log, k, v))
  BY DEF WriteVarNum, NewBlock
<1>3. /\ Good(log') /\ Len(log') = Len(log) + 1
      /\ \A i \in DOMAIN log : log'[i] = log[i]
      /\ log'[Len(log')] = NewBlock(log, k, v)
  BY <1>1, <1>2, AppendGood
<1>4. log \in Seq(Block) /\ log' \in Seq(Block)
  BY <1>1, <1>3 DEF Good
<1>5. DOMAIN log = 1 .. Len(log) /\ Len(log) \in Nat
  BY <1>4, BlockFields
<1>6. Len(log) <= Len(log) /\ Len(log) <= Len(log) + 1 /\ Len(log) # Len(log) + 1
  <2>1. \A q \in Nat : q <= q /\ q <= q + 1 /\ q # q + 1
    OBVIOUS
  <2> QED BY <1>5, <2>1
<1>7. Decides(log, Len(log), j)
  BY <1>4, <1>5, <1>6 DEF Decides, Settled
<1>8. log'[Len(log) + 1].stage # "whole"
  BY <1>3 DEF NewBlock
<1>9. Decides(log', Len(log), j)
  <2>1. Len(log) <= Len(log') /\ Len(log') <= Len(log) + 1
    BY <1>3, <1>5
  <2> QED BY <1>3, <1>4, <1>5, <1>8, <2>1 DEF Decides, Settled
<1> QED BY <1>3, <1>5, <1>7, <1>9, SamePrefix

\* A set that no compaction waits for, up to its first write.
LEMMA StoreSetenv ==
    ASSUME ValuesAreNoNames, Shape, Sound, pc \in {"idle", "retry"},
           NEW k \in Keys, NEW v \in Values, __sys_setenv(k, v)
    PROVE  \/ Store!Internal \/ Store!Set(k, v) \/ Store!Refuse(k, v)
           \/ Store!Exhausted(k, v)
<1> DEFINE old == GetEnvBlockByName(log, k)
<1>1. waiting = None /\ ~Writing /\ pc # "copy" /\ ~Rewriting
  BY DEF Shape, Placed, Writing, Rewriting
<1>2. Settled(log)
  BY <1>1, SoundSettled
<1>3. \A j \in Keys : EnvOf[j] = sys_getenv(log, j)
  BY <1>1, ViewIsLog
<1>4. /\ \/ /\ sys_getenv(log, k) = v \/ (old # 0 /\ log[old].perm)
            /\ Return(log, k, v, "success")
         \/ WriteVarNum(log, k, v, old)
         \/ Defrag(log, [key |-> k, val |-> v])
         \/ Return(log, k, v, "exhausted")
      /\ old # 0 => old \in DOMAIN log /\ log[old].key = k
  BY <1>2, OldBlock
<1> HIDE DEF old
<1>5. ASSUME NEW s, Return(log, k, v, s)
      PROVE  ret' = Answer("set", k, v, s) /\ EnvOf' = EnvOf
  <2>1. log' = log /\ waiting' = None /\ ret' = Answer("set", k, v, s)
    BY <1>1, <1>5 DEF Return
  <2>2. ~Rewriting'
    BY <2>1 DEF Rewriting
  <2>3. \A j \in Keys : EnvOf'[j] = EnvOf[j]
    BY <1>3, <2>1, <2>2, ViewIsLog
  <2> QED BY <2>1, <2>3, ViewSame
<1>6. CASE sys_getenv(log, k) = v /\ Return(log, k, v, "success")
  <2>1. EnvOf' = [EnvOf EXCEPT ![k] = v]
    BY <1>3, <1>5, <1>6, ViewSet
  <2> QED BY <1>5, <1>6, <2>1 DEF Store!Set, Store!Answer, Answer
<1>7. CASE old # 0 /\ log[old].perm /\ Return(log, k, v, "success")
  <2>1. k \in Permanent
    BY <1>4, <1>7 DEF Shape, PermanentMarked
  <2> QED BY <1>5, <1>7, <2>1 DEF Store!Refuse, Store!Answer, Answer
<1>8. CASE WriteVarNum(log, k, v, old)
  <2>1. ~Rewriting' /\ ret' = ret
    BY <1>1, <1>8 DEF WriteVarNum, Rewriting
  <2>2. \A j \in Keys : EnvOf'[j] = EnvOf[j]
    BY <1>2, <1>3, <1>8, <2>1, ViewIsLog, BegunSame
  <2> QED BY <2>1, <2>2, ViewSame DEF Store!Internal
<1>9. CASE Defrag(log, [key |-> k, val |-> v])
  <2>1. ~Rewriting' /\ ret' = ret /\ log' = log
    BY <1>9 DEF Defrag, Rewriting
  <2>2. \A j \in Keys : EnvOf'[j] = EnvOf[j]
    BY <1>3, <2>1, ViewIsLog
  <2> QED BY <2>1, <2>2, ViewSame DEF Store!Internal
<1>10. CASE Return(log, k, v, "exhausted")
  BY <1>5, <1>10 DEF Store!Exhausted, Store!Answer, Answer
<1> QED BY <1>4, <1>6, <1>7, <1>8, <1>9, <1>10

\* In EnvStore sys_setenv is a set, a refusal, or nothing yet.
LEMMA StoreSet ==
    ASSUME ValuesAreNoNames, Shape, Sound, NEW k \in Keys, NEW v \in Values, Setenv(k, v)
    PROVE  \/ Store!Internal \/ Store!Set(k, v) \/ Store!Refuse(k, v)
           \/ Store!Exhausted(k, v)
<1>1. pc = "idle"
  BY DEF Setenv
<1>2. CASE k \in ReadOnly
  <2>1. UNCHANGED <<log, ram, waiting, pc>> /\ ret' = Answer("set", k, v, "success")
    BY <1>2 DEF Setenv
  <2>2. EnvOf' = EnvOf
    BY <2>1 DEF EnvOf
  <2> QED BY <1>2, <2>1, <2>2 DEF Store!Refuse, Store!Answer, Answer
<1>3. CASE k \notin ReadOnly
  BY <1>1, <1>3, StoreSetenv DEF Setenv
<1> QED BY <1>2, <1>3

\* In EnvStore the set that starts again is a set, a refusal or nothing.
LEMMA StoreRetry ==
    ASSUME ValuesAreNoNames, Shape, Sound, Retry
    PROVE  /\ cur.key \in Keys /\ cur.val \in Values
           /\ \/ Store!Internal \/ Store!Set(cur.key, cur.val)
              \/ Store!Refuse(cur.key, cur.val) \/ Store!Exhausted(cur.key, cur.val)
<1>1. pc = "retry" /\ cur.key \in Keys /\ cur.val \in Values /\ __sys_setenv(cur.key, cur.val)
  BY DEF Retry, Shape, Placed
<1> QED BY <1>1, StoreSetenv

\* In EnvStore sys_getenv is a Get.
LEMMA StoreGet ==
    ASSUME ValuesAreNoNames, Shape, Sound, NEW k \in Keys, Getenv(k)
    PROVE  Store!Get(k)
<1>1. log' = log /\ waiting = None /\ waiting' = None
  BY SoundGet, IdleSettled DEF Getenv, EnterAgain
<1>2. ~Rewriting /\ ~Rewriting'
  BY <1>1 DEF Rewriting
<1>3. \A j \in Keys : EnvOf'[j] = EnvOf[j]
  BY <1>1, <1>2, ViewIsLog
<1>4. ret' = Answer("get", k, EnvOf[k], "success")
  <2>1. ~Torn(log, k)
    BY LookupSettled, IdleSettled DEF Getenv
  <2> QED BY <1>2, <2>1, ViewIsLog DEF Getenv
<1> QED BY <1>3, <1>4, ViewSame DEF Store!Get, Store!Answer, Answer

\* In EnvStore sys_unsetenv is an Unset or fails.
LEMMA StoreUnset ==
    ASSUME ValuesAreNoNames, Shape, Sound, NEW k \in Keys, Unsetenv(k)
    PROVE  Store!Unset(k) \/ Store!UnsetFails(k)
<1> DEFINE i == GetEnvBlockByName(log, k)
<1>1. Settled(log) /\ waiting = None /\ waiting' = None
  BY IdleSettled DEF Unsetenv
<1>2. ~Rewriting /\ ~Rewriting'
  BY <1>1 DEF Rewriting
<1>3. \A j \in Keys : EnvOf[j] = sys_getenv(log, j) /\ EnvOf'[j] = sys_getenv(log', j)
  BY <1>2, ViewIsLog
<1>4. \/ i = 0 /\ sys_getenv(log, k) = None
      \/ /\ i # 0 /\ i \in DOMAIN log /\ ~log[i].garbage /\ log[i].key = k
         /\ sys_getenv(log, k) # None
  BY <1>1, LookupSettled
<1> HIDE DEF i
<1>5. CASE log' = log /\ ret' = Answer("unset", k, None, "failure") /\ (k \in ReadOnly \/ i = 0)
  <2>1. \A j \in Keys : EnvOf'[j] = EnvOf[j]
    BY <1>3, <1>5
  <2>2. EnvOf[k] = None \/ k \in ReadOnly \union Permanent
    BY <1>3, <1>4, <1>5
  <2> QED BY <1>5, <2>1, <2>2, ViewSame DEF Store!UnsetFails, Store!Answer, Answer
<1>6. CASE /\ log' = EnvMakeGarbage(log, i) /\ i # 0
           /\ ret' = Answer("unset", k, None, "success")
  <2>1. log \in Seq(Block)
    BY <1>1 DEF Settled
  <2>2. /\ log' \in Seq(Block) /\ DOMAIN log' = DOMAIN log
        /\ log'[i].garbage /\ \A j \in DOMAIN log : j # i => log'[j] = log[j]
        /\ \A j \in DOMAIN log : SameBlock(log[j], log'[j])
    BY <1>4, <1>6, <2>1, Marked
  <2>3. \A j \in DOMAIN log : log[j].garbage \/ log[j].key # k \/ j = i
    BY <1>1, <1>4, <1>6 DEF Settled
  <2>4. \A j \in DOMAIN log' : log'[j].garbage \/ log'[j].key # k
    BY <2>2, <2>3
  <2>5. sys_getenv(log', k) = None
    BY <2>2, <2>4, LookupNone
  <2>6. ASSUME NEW j \in Keys, j # k PROVE sys_getenv(log', j) = sys_getenv(log, j)
    <3>1. \A x \in DOMAIN log : \/ log'[x] = log[x]
                                \/ /\ log[x].garbage \/ log[x].key # j
                                   /\ log'[x].garbage \/ log'[x].key # j
      BY <1>4, <1>6, <2>2, <2>6 DEF SameBlock
    <3> QED BY <2>1, <2>2, <3>1, SameLive
  <2>7. EnvOf' = [EnvOf EXCEPT ![k] = None]
    BY <1>3, <2>5, <2>6, ViewSet
  <2>8. EnvOf[k] # None
    BY <1>3, <1>4, <1>6
  <2> QED BY <1>6, <2>7, <2>8 DEF Store!Unset, Store!Answer, Answer
<1>7. \/ log' = log /\ ret' = Answer("unset", k, None, "failure") /\ (k \in ReadOnly \/ i = 0)
      \/ /\ log' = EnvMakeGarbage(log, i) /\ i # 0
         /\ ret' = Answer("unset", k, None, "success")
  BY DEF Unsetenv, i
<1> QED BY <1>5, <1>6, <1>7

\* A log whose last block is being written is decided by those before it.
LEMMA WritingDecided ==
    ASSUME Shape, Sound, Writing, NEW n \in Seq(Block), Len(n) = Len(log),
           \A i \in DOMAIN log : i # Len(log) => n[i] = log[i],
           NEW k \in Keys,
           \/ n[Len(log)].stage # "whole" \/ n[Len(log)].key # k
           \/ cur.old # 0 /\ cur.key = k
    PROVE  /\ Decides(n, Len(log) - 1, k)
           /\ \A i \in 1 .. Len(log) - 1 : n[i] = log[i]
<1> DEFINE p == Len(log) - 1
<1>1. log \in Seq(Block) /\ log # <<>>
  BY DEF Shape, TypeOK, Placed
<1>2. DOMAIN log = 1 .. Len(log) /\ Len(log) \in Nat /\ Len(log) # 0
  BY <1>1, BlockFields, EmptySeq
<1>3. /\ p \in Nat /\ p <= Len(n) /\ Len(n) <= p + 1 /\ p + 1 = Len(log)
      /\ \A i \in 1 .. p : i \in DOMAIN log /\ i # Len(log) /\ i < Len(log)
      /\ \A i \in 1 .. p : \A j \in 1 .. p : i < j \/ j < i \/ i = j
  <2>1. \A q \in Nat : q # 0 =>
           /\ q - 1 \in Nat /\ q - 1 <= q /\ q <= (q - 1) + 1 /\ (q - 1) + 1 = q
           /\ \A i \in 1 .. q - 1 : i \in 1 .. q /\ i # q /\ i < q
           /\ \A i \in 1 .. q - 1 : \A j \in 1 .. q - 1 : i < j \/ j < i \/ i = j
    OBVIOUS
  <2> QED BY <1>2, <2>1
<1>4. \A i \in 1 .. p : n[i] = log[i] /\ n[i].stage = "whole"
  BY <1>3 DEF Sound, BlocksWhole
<1>5. ASSUME NEW i \in 1 .. p, NEW j \in 1 .. p, i < j
      PROVE  n[i].garbage \/ n[j].garbage \/ n[i].key # n[j].key
  <2>1. i \in DOMAIN log /\ j \in DOMAIN log /\ j # Len(log)
    BY <1>3
  <2>2. n[i] = log[i] /\ n[j] = log[j]
    BY <1>4
  <2>3. log[i].garbage \/ log[j].garbage \/ log[i].key # log[j].key
    BY <1>5, <2>1 DEF Sound, LiveBlocks
  <2> QED BY <2>2, <2>3
<1>6. ASSUME cur.old # 0 PROVE cur.old \in 1 .. p /\ ~n[cur.old].garbage /\ n[cur.old].key = cur.key
  <2>1. cur.old \in 0 .. Len(log) - 1 /\ ~log[cur.old].garbage /\ log[cur.old].key = cur.key
    BY <1>6 DEF Shape, Placed, Sound, LiveBlocks
  <2>2. cur.old \in 1 .. p
    BY <1>2, <1>6, <2>1
  <2> QED BY <1>4, <2>1, <2>2
<1> HIDE DEF p
<1>7. \A i, j \in 1 .. p : ~n[i].garbage /\ ~n[j].garbage /\ n[i].key = n[j].key => i = j
  BY <1>3, <1>5
<1>8. Len(n) = p + 1 => \/ n[p + 1].stage # "whole" \/ n[p + 1].key # k
                        \/ \E i \in 1 .. p : ~n[i].garbage /\ n[i].key = k
  BY <1>3, <1>6
<1>9. Decides(n, p, k)
  BY <1>3, <1>4, <1>7, <1>8 DEF Decides
<1> QED BY <1>4, <1>9 DEF p

\* Writing a block further, up to the value, changes no value.
LEMMA WrittenSame ==
    ASSUME ValuesAreNoNames, Shape, Sound, Writing,
           log' \in Seq(Block), Len(log') = Len(log),
           \A i \in DOMAIN log : i # Len(log) => log'[i] = log[i],
           log'[Len(log)].key = log[Len(log)].key, NEW k \in Keys,
           \/ log[Len(log)].stage # "whole" \/ log[Len(log)].key # k
           \/ cur.old # 0 /\ cur.key = k,
           \/ log'[Len(log)].stage # "whole" \/ log[Len(log)].key # k
           \/ cur.old # 0 /\ cur.key = k
    PROVE  sys_getenv(log', k) = sys_getenv(log, k)
<1>1. log \in Seq(Block)
  BY DEF Shape, TypeOK
<1>2. Decides(log, Len(log) - 1, k)
  BY <1>1, WritingDecided
<1>3. /\ Decides(log', Len(log) - 1, k)
      /\ \A i \in 1 .. Len(log) - 1 : log'[i] = log[i]
  BY WritingDecided
<1> QED BY <1>2, <1>3, SamePrefix

\* The map when only the log has changed, and not for the caller.
LEMMA ViewKept ==
    ASSUME UNCHANGED <<ram, waiting>>, pc = "copy" <=> pc' = "copy",
           \A k \in Keys : sys_getenv(log', k) = sys_getenv(log, k)
    PROVE  EnvOf' = EnvOf
<1>1. Rewriting' <=> Rewriting
  BY DEF Rewriting
<1>2. \A k \in Keys : EnvOf'[k] = EnvOf[k]
  BY <1>1, Viewed, ViewedNext
<1> QED BY <1>2, ViewSame

\* The write of the header changes nothing in EnvStore.
LEMMA StoreWriteHeader ==
    ASSUME ValuesAreNoNames, Shape, Shape', Sound, WriteHeader
    PROVE  Store!Internal
<1> DEFINE l == log[Len(log)]
           b == [[l EXCEPT !.stage = "head"] EXCEPT !.cells = Cells(cur.key, cur.val)]
<1>1. /\ b \in Block /\ b.key = l.key /\ b.stage = "head" /\ Len(log) \in DOMAIN log
      /\ log' = [log EXCEPT ![Len(log)] = b]
  BY HeaderWritten
<1>2. log \in Seq(Block) /\ log' \in Seq(Block)
  BY DEF Shape, TypeOK
<1>3. /\ pc = "write" /\ pc' = pc /\ UNCHANGED <<waiting, ram, ret>> /\ l.stage = "num"
  BY DEF WriteHeader, Last
<1> HIDE DEF b, l
<1>4. /\ Len(log') = Len(log) /\ log'[Len(log)] = b
      /\ \A j \in DOMAIN log : j # Len(log) => log'[j] = log[j]
  BY <1>1, <1>2, Replaced
<1>5. Writing
  BY <1>3 DEF Writing
<1>6. log'[Len(log)].key = log[Len(log)].key
      /\ log'[Len(log)].stage # "whole" /\ log[Len(log)].stage # "whole"
  BY <1>1, <1>3, <1>4 DEF l
<1>7. \A k \in Keys : sys_getenv(log', k) = sys_getenv(log, k)
  BY <1>2, <1>4, <1>5, <1>6, WrittenSame
<1> QED BY <1>3, <1>7, ViewKept DEF Store!Internal

\* The write of the name changes nothing in EnvStore.
LEMMA StoreWriteName ==
    ASSUME ValuesAreNoNames, Shape, Shape', Sound, WriteName
    PROVE  Store!Internal
<1> DEFINE l == log[Len(log)]
           d == [l EXCEPT !.stage = "name"]
<1>1. /\ pc = "write" /\ pc' = pc /\ UNCHANGED <<waiting, ram, ret>> /\ l.stage = "head"
  BY DEF WriteName, Last
<1>2. d \in Block /\ d.key = l.key /\ d.stage = "name" /\ Len(log) \in DOMAIN log
  BY <1>1, WrittenBlock
<1>3. log' = [log EXCEPT ![Len(log)] = d] /\ log \in Seq(Block) /\ log' \in Seq(Block)
  BY <1>2 DEF WriteName, Last, Shape, TypeOK
<1> HIDE DEF d, l
<1>4. /\ Len(log') = Len(log) /\ log'[Len(log)] = d
      /\ \A j \in DOMAIN log : j # Len(log) => log'[j] = log[j]
  BY <1>2, <1>3, Replaced
<1>5. Writing
  BY <1>1 DEF Writing
<1>6. log'[Len(log)].key = log[Len(log)].key
      /\ log'[Len(log)].stage # "whole" /\ log[Len(log)].stage # "whole"
  BY <1>1, <1>2, <1>4 DEF l
<1>7. \A k \in Keys : sys_getenv(log', k) = sys_getenv(log, k)
  BY <1>3, <1>4, <1>5, <1>6, WrittenSame
<1> QED BY <1>1, <1>7, ViewKept DEF Store!Internal

\* The copies after the first one are what the log is still to get.
LEMMA ViewTail ==
    ASSUME Shape, Shape', ram # <<>>, ram' = Tail(ram), CopiesOrdered, CopiesOrdered',
           Rewriting, Rewriting',
           sys_getenv(log', ram[1].key) = ram[1].val,
           \A k \in Keys : k # ram[1].key => sys_getenv(log', k) = sys_getenv(log, k)
    PROVE  EnvOf' = EnvOf
<1>1. ram \in Seq(Copies) /\ ram' \in Seq(Copies)
  BY DEF Shape, TypeOK
<1>2. /\ 1 \in DOMAIN ram /\ DOMAIN ram = 1 .. Len(ram)
      /\ \A x \in DOMAIN ram' : x + 1 \in DOMAIN ram /\ ram'[x] = ram[x + 1]
      /\ \A x \in DOMAIN ram : x # 1 => x - 1 \in DOMAIN ram' /\ ram'[x - 1] = ram[x]
  BY <1>1, RamFields
<1>3. \A x, y \in DOMAIN ram : ram[y].key = ram[x].key => y = x
  BY <1>1, CopiesDistinct DEF CopiesOrdered
<1>4. \A x, y \in DOMAIN ram' : ram'[y].key = ram'[x].key => y = x
  BY <1>1, CopiesDistinct DEF CopiesOrdered
<1>5. \A x \in DOMAIN ram' : ram'[x].key # ram[1].key
  <2> TAKE x \in DOMAIN ram'
  <2>1. x + 1 \in DOMAIN ram /\ ram'[x] = ram[x + 1]
    BY <1>2
  <2>2. DOMAIN ram' = 1 .. Len(ram') /\ Len(ram') \in Nat
    BY <1>1, RamFields
  <2>3. x + 1 # 1
    BY <2>2
  <2> QED BY <1>2, <1>3, <2>1, <2>3
<1>6. ASSUME NEW k \in Keys PROVE EnvOf'[k] = EnvOf[k]
  <2>1. CASE k = ram[1].key
    <3>1. EnvOf[k] = ram[1].val
      BY <1>2, <1>3, <2>1, CopyIsUnique, Viewed
    <3>2. EnvOf'[k] = sys_getenv(log', k)
      BY <1>5, <2>1, ViewedNext
    <3> QED BY <2>1, <3>1, <3>2
  <2>2. CASE k # ram[1].key /\ \E x \in DOMAIN ram : ram[x].key = k
    <3>1. PICK x \in DOMAIN ram : ram[x].key = k
      BY <2>2
    <3>2. x # 1
      BY <2>2, <3>1
    <3>3. x - 1 \in DOMAIN ram' /\ ram'[x - 1] = ram[x]
      BY <1>2, <3>2
    <3>4. EnvOf[k] = ram[x].val
      BY <1>3, <3>1, CopyIsUnique, Viewed
    <3>5. CopyValue(ram', k) = ram'[x - 1].val
      BY <1>4, <3>1, <3>3, CopyIsUnique
    <3>6. EnvOf'[k] = CopyValue(ram', k)
      BY <3>1, <3>3, ViewedNext
    <3> QED BY <3>3, <3>4, <3>5, <3>6
  <2>3. CASE k # ram[1].key /\ \A x \in DOMAIN ram : ram[x].key # k
    <3>1. \A x \in DOMAIN ram' : ram'[x].key # k
      BY <1>2, <2>3
    <3>2. EnvOf[k] = sys_getenv(log, k)
      BY <2>3, Viewed
    <3>3. EnvOf'[k] = sys_getenv(log', k)
      BY <3>1, ViewedNext
    <3> QED BY <2>3, <3>2, <3>3
  <2> QED BY <2>1, <2>2, <2>3
<1> QED BY <1>6, ViewSame

\* A set without an old block takes effect with the last byte of the value.
LEMMA StoreWriteValue ==
    ASSUME ValuesAreNoNames, Shape, Shape', Sound, Sound', WriteValue
    PROVE  /\ cur.key \in Keys /\ cur.val \in Values
           /\ Store!Internal \/ Store!Set(cur.key, cur.val)
<1> DEFINE l == [log EXCEPT ![Last].stage = "whole"]
<1>1. pc = "write" /\ Writing /\ log[Len(log)].stage # "whole"
  BY DEF WriteValue, Writing, Last
<1>2. /\ log # <<>> /\ cur.key \in Keys /\ cur.val \in Values
      /\ log[Len(log)].key = cur.key /\ log[Len(log)].val = cur.val
      /\ waiting # None => ram # <<>>
      /\ log \in Seq(Block) /\ log' \in Seq(Block)
  BY <1>1 DEF Shape, TypeOK, Placed, Writing
<1>3. /\ Len(l) = Len(log) /\ DOMAIN l = DOMAIN log
      /\ l[Len(log)].key = cur.key /\ l[Len(log)].val = cur.val
      /\ l[Len(log)].garbage = log[Len(log)].garbage /\ l[Len(log)].stage = "whole"
      /\ \A j \in DOMAIN log : j # Len(log) => l[j] = log[j]
  BY <1>2, ValueWritten
<1>4. log' = l
  BY DEF WriteValue, Return
<1> HIDE DEF l
<1>5. ASSUME NEW k \in Keys, k # cur.key \/ cur.old # 0
      PROVE  sys_getenv(log', k) = sys_getenv(log, k)
  <2>1. log[Len(log)].key # k \/ (cur.old # 0 /\ cur.key = k)
    BY <1>2, <1>5
  <2>2. /\ Len(log') = Len(log) /\ \A i \in DOMAIN log : i # Len(log) => log'[i] = log[i]
        /\ log'[Len(log)].key = log[Len(log)].key
    BY <1>2, <1>3, <1>4
  <2> QED BY <1>1, <1>2, <2>1, <2>2, WrittenSame
<1>6. CASE cur.old # 0
  <2>1. pc' = "mark" /\ UNCHANGED <<waiting, ram, ret>>
    BY <1>6 DEF WriteValue
  <2> QED BY <1>1, <1>2, <1>5, <1>6, <2>1, ViewKept DEF Store!Internal
<1>7. CASE cur.old = 0
  <2>1. Return(l, cur.key, cur.val, "success")
    BY <1>7 DEF WriteValue, l
  <2>2. ~Writing'
    BY <2>1 DEF Return, Writing
  <2>3. Settled(log')
    <3>1. BlocksWhole' /\ LiveBlocks'
      BY DEF Sound
    <3>2. DOMAIN log' = 1 .. Len(log') /\ Len(log') \in Nat
      BY <1>2, BlockFields
    <3>3. \A i \in DOMAIN log' : log'[i].stage = "whole"
      BY <2>2, <3>1 DEF BlocksWhole, Writing
    <3>4. \A i, j \in DOMAIN log' :
             i < j => log'[i].garbage \/ log'[j].garbage \/ log'[i].key # log'[j].key
      BY <2>2, <3>1 DEF LiveBlocks
    <3>5. ASSUME NEW i \in DOMAIN log', NEW j \in DOMAIN log',
                 ~log'[i].garbage, ~log'[j].garbage, log'[i].key = log'[j].key
          PROVE  i = j
      <4>1. i < j \/ j < i \/ i = j
        BY <3>2
      <4> QED BY <3>4, <3>5, <4>1
    <3> QED BY <1>2, <3>3, <3>5 DEF Settled
  <2>4. sys_getenv(log', cur.key) = cur.val
    <3>1. Len(log) \in DOMAIN log'
      BY <1>2, <1>3, <1>4, EndIsLast, ShapeParts
    <3>2. ~log'[Len(log)].garbage /\ log'[Len(log)].key = cur.key
          /\ log'[Len(log)].val = cur.val
      BY <1>1, <1>3, <1>4 DEF Sound, LiveBlocks
    <3>3. \/ \A j \in DOMAIN log' : log'[j].garbage \/ log'[j].key # cur.key
          \/ \E i \in DOMAIN log' :
                /\ ~log'[i].garbage /\ log'[i].key = cur.key
                /\ sys_getenv(log', cur.key) = log'[i].val
      BY <1>2, <2>3, LookupSettled
    <3>4. PICK i \in DOMAIN log' : /\ ~log'[i].garbage /\ log'[i].key = cur.key
                                   /\ sys_getenv(log', cur.key) = log'[i].val
      BY <3>1, <3>2, <3>3
    <3>5. i = Len(log)
      BY <2>3, <3>1, <3>2, <3>4 DEF Settled
    <3> QED BY <3>2, <3>4, <3>5
  <2>5. CASE waiting = None
    <3>1. waiting' = None /\ ret' = Answer("set", cur.key, cur.val, "success")
      BY <2>1, <2>5 DEF Return
    <3>2. ~Rewriting /\ ~Rewriting'
      BY <2>5, <3>1 DEF Rewriting
    <3>3. \A k \in Keys : k # cur.key => EnvOf'[k] = EnvOf[k]
      BY <1>5, <3>2, ViewIsLog
    <3>4. EnvOf'[cur.key] = cur.val
      BY <1>2, <2>4, <3>2, ViewIsLog
    <3>5. EnvOf' = [EnvOf EXCEPT ![cur.key] = cur.val]
      BY <1>2, <3>3, <3>4, ViewSet
    <3> QED BY <1>2, <3>1, <3>5 DEF Store!Set, Store!Answer, Answer
  <2>6. CASE waiting # None
    <3>1. ram' = Tail(ram) /\ UNCHANGED <<waiting, ret>> /\ pc' = "restore"
      BY <2>1, <2>6 DEF Return
    <3>2. cur.key = ram[1].key /\ cur.val = ram[1].val
      BY <1>1, <2>6, WriterIsRestorer
    <3>3. CopiesOrdered /\ CopiesOrdered'
      BY <2>6, <3>1 DEF Sound
    <3>4. Rewriting /\ Rewriting'
      BY <1>1, <2>6, <3>1 DEF Rewriting
    <3>5. /\ sys_getenv(log', ram[1].key) = ram[1].val
          /\ \A k \in Keys : k # ram[1].key => sys_getenv(log', k) = sys_getenv(log, k)
      BY <1>5, <2>4, <3>2
    <3>6. EnvOf' = EnvOf
      BY <1>2, <2>6, <3>1, <3>3, <3>4, <3>5, ViewTail
    <3> QED BY <1>2, <3>1, <3>6 DEF Store!Internal
  <2> QED BY <2>5, <2>6
<1> QED BY <1>6, <1>7

\* A set of an existing variable takes effect with the mark on the old block.
LEMMA StoreMarkOld ==
    ASSUME ValuesAreNoNames, Shape, Shape', Sound, MarkOld
    PROVE  cur.key \in Keys /\ cur.val \in Values /\ Store!Set(cur.key, cur.val)
<1> DEFINE n == Len(log)
<1>1. /\ cur.old \in DOMAIN log /\ n \in DOMAIN log /\ cur.old # n
      /\ waiting = None /\ waiting' = None
      /\ Settled(log') /\ DOMAIN log' = DOMAIN log /\ log'[cur.old].garbage
      /\ \A j \in DOMAIN log : j # cur.old => log'[j] = log[j]
      /\ log[cur.old].key = cur.key
      /\ ~log[n].garbage /\ log[n].key = cur.key /\ log[n].val = cur.val
  BY OldMarked
<1>2. cur.key \in Keys /\ cur.val \in Values
  BY DEF MarkOld, Shape, Placed, Writing
<1>3. ret' = Answer("set", cur.key, cur.val, "success")
  BY <1>1 DEF MarkOld, Return
<1>4. ~Rewriting /\ ~Rewriting'
  BY <1>1 DEF Rewriting
<1>5. log \in Seq(Block) /\ log' \in Seq(Block)
  BY DEF Shape, TypeOK
<1> HIDE DEF n
<1>6. log'[n] = log[n]
  BY <1>1
<1>7. sys_getenv(log', cur.key) = cur.val
  <2>1. \/ \A j \in DOMAIN log' : log'[j].garbage \/ log'[j].key # cur.key
        \/ \E i \in DOMAIN log' : /\ ~log'[i].garbage /\ log'[i].key = cur.key
                                  /\ sys_getenv(log', cur.key) = log'[i].val
    BY <1>1, <1>2, LookupSettled
  <2>2. PICK i \in DOMAIN log' : /\ ~log'[i].garbage /\ log'[i].key = cur.key
                                 /\ sys_getenv(log', cur.key) = log'[i].val
    BY <1>1, <1>6, <2>1
  <2>3. i = n
    BY <1>1, <1>6, <2>2 DEF Settled
  <2> QED BY <1>1, <1>6, <2>2, <2>3
<1>8. ASSUME NEW k \in Keys, k # cur.key PROVE sys_getenv(log', k) = sys_getenv(log, k)
  <2>1. log'[cur.old].garbage /\ log[cur.old].key # k
    BY <1>1, <1>8
  <2>2. \A x \in DOMAIN log : \/ log'[x] = log[x]
                              \/ /\ log[x].garbage \/ log[x].key # k
                                 /\ log'[x].garbage \/ log'[x].key # k
    BY <1>1, <2>1
  <2> QED BY <1>1, <1>5, <2>2, SameLive
<1>9. EnvOf'[cur.key] = cur.val /\ \A k \in Keys : k # cur.key => EnvOf'[k] = EnvOf[k]
  BY <1>2, <1>4, <1>7, <1>8, ViewIsLog
<1>10. EnvOf' = [EnvOf EXCEPT ![cur.key] = cur.val]
  BY <1>2, <1>9, ViewSet
<1> QED BY <1>2, <1>3, <1>10 DEF Store!Set, Store!Answer, Answer

\* The copy of a block to RAM changes nothing in EnvStore.
LEMMA StoreCopyBlock ==
    ASSUME Shape, Sound, CopyBlock
    PROVE  Store!Internal
<1>1. pc = "copy" /\ UNCHANGED <<log, pc, waiting, ret>>
  BY BlockCopied
<1>2. ~Rewriting /\ ~Rewriting'
  BY <1>1 DEF Rewriting
<1>3. \A k \in Keys : EnvOf'[k] = EnvOf[k]
  BY <1>1, <1>2, ViewIsLog
<1> QED BY <1>1, <1>3, ViewSame DEF Store!Internal

\* What was copied is in RAM and has the value that the log has.
LEMMA CopiedValue ==
    ASSUME ValuesAreNoNames, Settled(log), ram \in Seq(Copies), CopiesOrdered,
           NEW x \in DOMAIN ram, NEW i \in DOMAIN log, CopyOf(x, i)
    PROVE  /\ sys_getenv(log, ram[x].key) = ram[x].val
           /\ CopyValue(ram, ram[x].key) = ram[x].val
<1>1. ~log[i].garbage /\ log[i].key = ram[x].key /\ log[i].val = ram[x].val
  BY DEF CopyOf
<1>2. ram[x].key \in Keys
  BY RamFields
<1>3. \/ \A j \in DOMAIN log : log[j].garbage \/ log[j].key # ram[x].key
      \/ \E j \in DOMAIN log : /\ ~log[j].garbage /\ log[j].key = ram[x].key
                               /\ sys_getenv(log, ram[x].key) = log[j].val
  BY <1>2, LookupSettled
<1>4. PICK j \in DOMAIN log : /\ ~log[j].garbage /\ log[j].key = ram[x].key
                              /\ sys_getenv(log, ram[x].key) = log[j].val
  BY <1>1, <1>3
<1>5. i = j
  BY <1>1, <1>4 DEF Settled
<1>6. \A y \in DOMAIN ram : ram[y].key = ram[x].key => y = x
  BY CopiesDistinct DEF CopiesOrdered
<1>7. CopyValue(ram, ram[x].key) = ram[x].val
  BY <1>6, CopyIsUnique
<1> QED BY <1>1, <1>4, <1>5, <1>7

\* The erasure of the sector changes nothing in EnvStore.
LEMMA StoreFormat ==
    ASSUME ValuesAreNoNames, Shape, Sound, Format
    PROVE  Store!Internal
<1>1. /\ pc = "copy" /\ pc' = "restore" /\ log' = <<>> /\ UNCHANGED <<ram, waiting, ret>>
      /\ NextLive(log, pos) = 0
  BY DEF Format
<1>2. log \in Seq(Block) /\ ram \in Seq(Copies) /\ pos \in Nat /\ waiting # None
  BY <1>1 DEF Shape, TypeOK, Placed
<1>3. Settled(log) /\ CopiesOrdered
  BY <1>1, <1>2, SoundSettled DEF Writing, Sound
<1>4. ~Rewriting /\ Rewriting'
  BY <1>1, <1>2 DEF Rewriting
<1>5. \A j \in DOMAIN log : j > pos => log[j].garbage
  BY <1>1, <1>2, NextLiveFound
<1>6. DOMAIN log = 1 .. Len(log) /\ Len(log) \in Nat
  BY <1>2, BlockFields
<1>7. \A j \in DOMAIN log : ~log[j].garbage => \E x \in DOMAIN ram : CopyOf(x, j)
  <2>1. \A j \in DOMAIN log : j > pos \/ j <= pos
    BY <1>2, <1>6
  <2> QED BY <1>1, <1>5, <2>1 DEF Sound, Copying
<1>8. ASSUME NEW k \in Keys PROVE EnvOf'[k] = EnvOf[k]
  <2>1. EnvOf[k] = sys_getenv(log, k)
    BY <1>4, ViewIsLog
  <2>2. CASE \E x \in DOMAIN ram : ram[x].key = k
    <3>1. PICK x \in DOMAIN ram : ram[x].key = k
      BY <2>2
    <3>2. PICK i \in DOMAIN log : CopyOf(x, i)
      BY <1>1 DEF Sound, Copying
    <3>3. sys_getenv(log, k) = CopyValue(ram, k)
      BY <1>2, <1>3, <3>1, <3>2, CopiedValue
    <3>4. EnvOf'[k] = CopyValue(ram, k)
      BY <1>1, <1>4, <2>2, ViewedNext
    <3> QED BY <2>1, <3>3, <3>4
  <2>3. CASE \A x \in DOMAIN ram : ram[x].key # k
    <3>1. \A j \in DOMAIN log : log[j].garbage \/ log[j].key # k
      BY <1>7, <2>3 DEF CopyOf
    <3>2. sys_getenv(log, k) = None
      BY <1>2, <3>1, LookupNone
    <3>3. log' \in Seq(Block) /\ DOMAIN log' = {}
      BY <1>1, EmptySeq
    <3>4. sys_getenv(log', k) = None
      BY <3>3, LookupNone
    <3>5. EnvOf'[k] = sys_getenv(log', k)
      BY <1>1, <2>3, ViewedNext
    <3> QED BY <2>1, <3>2, <3>4, <3>5
  <2> QED BY <2>2, <2>3
<1> QED BY <1>1, <1>8, ViewSame DEF Store!Internal

\* A failing defragmentation changes nothing in EnvStore.
LEMMA StoreDefragFails ==
    ASSUME ValuesAreNoNames, Shape, Sound, DefragFails
    PROVE  Store!Internal
<1>1. pc = "copy" /\ pc' = "restore" /\ UNCHANGED <<log, ram, waiting, ret>>
  BY DEF DefragFails
<1>2. log \in Seq(Block) /\ ram \in Seq(Copies) /\ waiting # None
  BY <1>1 DEF Shape, TypeOK, Placed
<1>3. Settled(log) /\ CopiesOrdered
  BY <1>1, <1>2, SoundSettled DEF Writing, Sound
<1>4. ~Rewriting /\ Rewriting'
  BY <1>1, <1>2 DEF Rewriting
<1>5. ASSUME NEW k \in Keys PROVE EnvOf'[k] = EnvOf[k]
  <2>1. EnvOf[k] = sys_getenv(log, k)
    BY <1>4, ViewIsLog
  <2>2. CASE \E x \in DOMAIN ram : ram[x].key = k
    <3>1. PICK x \in DOMAIN ram : ram[x].key = k
      BY <2>2
    <3>2. PICK i \in DOMAIN log : CopyOf(x, i)
      BY <1>1 DEF Sound, Copying
    <3>3. sys_getenv(log, k) = CopyValue(ram, k)
      BY <1>2, <1>3, <3>1, <3>2, CopiedValue
    <3>4. EnvOf'[k] = CopyValue(ram, k)
      BY <1>1, <1>4, <2>2, ViewedNext
    <3> QED BY <2>1, <3>3, <3>4
  <2>3. CASE \A x \in DOMAIN ram : ram[x].key # k
    BY <1>1, <2>1, <2>3, ViewedNext
  <2> QED BY <2>2, <2>3
<1> QED BY <1>1, <1>5, ViewSame DEF Store!Internal

\* The restoring loop changes nothing in EnvStore.
LEMMA StoreRestoreBlock ==
    ASSUME ValuesAreNoNames, Shape, Shape', Sound, Sound', RestoreBlock
    PROVE  Store!Internal
<1> DEFINE k == ram[1].key
           v == ram[1].val
           old == GetEnvBlockByName(log, k)
<1>1. /\ ram # <<>> /\ ram \in Seq(Copies) /\ 1 \in DOMAIN ram /\ Head(ram) = ram[1]
      /\ k \in Keys /\ v \in Values
  BY NextCopy
<1>2. pc = "restore" /\ __sys_setenv(k, v)
  BY <1>1 DEF RestoreBlock
<1>3. waiting # None /\ ~Writing /\ Rewriting
  BY <1>2 DEF Shape, Placed, Writing, Rewriting
<1>4. Settled(log) /\ CopiesOrdered
  BY <1>3, SoundSettled DEF Sound
<1>5. /\ \/ Return(log, k, v, "success") /\ (sys_getenv(log, k) = v \/ (old # 0 /\ log[old].perm))
         \/ WriteVarNum(log, k, v, old) /\ sys_getenv(log, k) # v
         \/ /\ sys_getenv(log, k) # v
            /\ ~(End(log) + Cells(k, v) <= SpaceCells)
            /\ Return(log, k, v, "exhausted")
      /\ (\A j \in DOMAIN log : log[j].garbage \/ log[j].key # k)
         => old = 0 /\ sys_getenv(log, k) = None
  BY <1>1, <1>2, <1>3, <1>4, OldBlock
<1>6. v # None
  BY <1>1, EnvAssumption
<1> HIDE DEF old
<1>7. CASE defragFail
  <2>1. PICK i \in DOMAIN log : CopyOf(1, i)
    BY <1>1, <1>3, <1>7 DEF Sound, RestoringFailed
  <2>2. sys_getenv(log, k) = v
    BY <1>1, <1>4, <2>1, CopiedValue
  <2>3. Return(log, k, v, "success")
    BY <1>5, <2>2
  <2>4. ram' = Tail(ram) /\ UNCHANGED <<log, waiting, ret>> /\ pc' = "restore"
    BY <1>3, <2>3 DEF Return
  <2>5. Rewriting' /\ CopiesOrdered'
    BY <1>3, <2>4 DEF Rewriting, Sound
  <2>6. EnvOf' = EnvOf
    BY <1>1, <1>3, <1>4, <2>2, <2>4, <2>5, ViewTail
  <2> QED BY <2>4, <2>6 DEF Store!Internal
<1>8. CASE ~defragFail
  <2>1. /\ \A j \in DOMAIN log : log[j].garbage \/ log[j].key # k
        /\ End(log) <= ram[1].at
    BY <1>1, <1>2, <1>3, <1>8 DEF Sound, RestoringErased
  <2>2. old = 0 /\ sys_getenv(log, k) # v
    BY <1>5, <1>6, <2>1
  <2>3. End(log) + Cells(k, v) <= SpaceCells
    <3>1. ram[1].at + Cells(k, v) <= SpaceCells
      BY <1>1, <1>4 DEF CopiesOrdered
    <3>2. ram[1].at \in Nat /\ Cells(k, v) \in Nat /\ End(log) \in Nat /\ SpaceCells \in Nat
      BY <1>1, RamFields, EndIsLast, ShapeParts, EnvAssumption
    <3> QED BY <2>1, <3>1, <3>2
  <2>4. WriteVarNum(log, k, v, old)
    BY <1>5, <2>2, <2>3
  <2>5. UNCHANGED <<ram, waiting, ret>> /\ pc' = "write"
    BY <2>4 DEF WriteVarNum
  <2>6. \A j \in Keys : sys_getenv(log', j) = sys_getenv(log, j)
    BY <1>1, <1>4, <2>4, BegunSame
  <2>7. EnvOf' = EnvOf
    BY <1>2, <2>5, <2>6, ViewKept
  <2> QED BY <2>5, <2>7 DEF Store!Internal
<1> QED BY <1>7, <1>8

\* In EnvStore the return of sys_defragenv changes no variable.
LEMMA StoreDefragged ==
    ASSUME Shape, Sound, Defragged
    PROVE  \/ Store!Internal
           \/ \E s \in {"success", "exhausted"} : Store!Compacted(s)
           \/ \E k \in Keys, v \in Values : Store!Exhausted(k, v)
<1>1. /\ pc = "restore" /\ ram = <<>> /\ UNCHANGED <<log, ram>> /\ waiting' = None
  BY DEF Defragged
<1>2. DOMAIN ram = {} /\ ~Rewriting'
  BY <1>1 DEF Rewriting
<1>3. \A k \in Keys : EnvOf'[k] = EnvOf[k]
  BY <1>1, <1>2, Viewed, ViewedNext
<1>4. EnvOf' = EnvOf
  BY <1>3, ViewSame
<1>5. waiting = Explicit \/ waiting \in [key : Keys, val : Values]
  BY <1>1 DEF Shape, TypeOK, Placed
<1>6. waiting # Explicit => waiting.key \in Keys /\ waiting.val \in Values
  BY <1>5, NoneIsNoCaller
<1>7. CASE \E s \in {"success", "exhausted"} : ret' = Answer("defrag", None, None, s)
  BY <1>4, <1>7 DEF Store!Compacted, Store!Answer, Answer
<1>8. CASE waiting # Explicit /\ ret' = Answer("set", waiting.key, waiting.val, "exhausted")
  BY <1>4, <1>6, <1>8 DEF Store!Exhausted, Store!Answer, Answer
<1>9. CASE ret' = ret
  BY <1>4, <1>9 DEF Store!Internal
<1>10. \/ \E s \in {"success", "exhausted"} : ret' = Answer("defrag", None, None, s)
       \/ waiting # Explicit /\ ret' = Answer("set", waiting.key, waiting.val, "exhausted")
       \/ ret' = ret
  BY DEF Defragged
<1> QED BY <1>7, <1>8, <1>9, <1>10

\* A call of sys_defragenv changes nothing in EnvStore.
LEMMA StoreDefragenv ==
    ASSUME Shape, Sound, Defragenv
    PROVE  Store!Internal
<1>1. pc = "idle" /\ pc' = "copy" /\ log' = log /\ ret' = ret
  BY DEF Defragenv, Defrag
<1>2. ~Rewriting /\ ~Rewriting'
  BY <1>1, IdleSettled DEF Rewriting
<1>3. \A k \in Keys : EnvOf'[k] = EnvOf[k]
  BY <1>1, <1>2, ViewIsLog
<1> QED BY <1>1, <1>3, ViewSame DEF Store!Internal

\* A power failure leaves every variable as it is, unless the log is being
\* rewritten: then those are lost that are in RAM only.
LEMMA StorePowerFailure ==
    ASSUME ValuesAreNoNames, Shape, Sound, ~crashed, PowerFailure
    PROVE  Store!PowerFailure
<1>1. /\ log' = log /\ waiting' = None /\ ret' = None /\ crashed'
  BY DEF PowerFailure
<1>2. ~Rewriting'
  BY <1>1 DEF Rewriting
<1>3. log \in Seq(Block) /\ ram \in Seq(Copies)
  BY DEF Shape, TypeOK
<1>4. \A k \in Keys : EnvOf'[k] = sys_getenv(log, k)
  BY <1>1, <1>2, ViewIsLog
<1>5. EnvOf' \in [Keys -> Values \union {None}]
  <2>1. \A k \in Keys : EnvOf'[k] \in Values \union {None}
    BY <1>3, <1>4, LookupType
  <2>2. EnvOf' = [k \in Keys |-> EnvOf'[k]]
    BY ViewedNext
  <2> QED BY <2>1, <2>2
<1>6. ASSUME NEW k \in Keys, EnvOf'[k] # EnvOf[k]
      PROVE  waiting # None /\ EnvOf'[k] = None
  <2>1. Rewriting /\ \E x \in DOMAIN ram : ram[x].key = k
    BY <1>4, <1>6, Viewed
  <2>2. PICK x \in DOMAIN ram : ram[x].key = k
    BY <2>1
  <2>3. waiting # None /\ pc # "copy" /\ CopiesOrdered
    BY <2>1 DEF Rewriting, Sound
  <2>4. EnvOf[k] = CopyValue(ram, k)
    BY <2>1, Viewed
  <2>5. ~defragFail
    <3> SUFFICES ASSUME defragFail PROVE FALSE
      OBVIOUS
    <3>1. pc = "restore"
      BY <2>3 DEF Sound, RestoringFailed
    <3>2. PICK i \in DOMAIN log : CopyOf(x, i)
      BY <2>3 DEF Sound, RestoringFailed
    <3>3. Settled(log)
      BY <3>1, SoundSettled DEF Writing
    <3>4. sys_getenv(log, k) = CopyValue(ram, k)
      BY <1>3, <2>2, <2>3, <3>2, <3>3, CopiedValue
    <3> QED BY <1>4, <1>6, <2>4, <3>4
  <2>6. \A i \in DOMAIN log :
           ~log[i].garbage /\ log[i].key = k => pc = "write" /\ i = Len(log)
    BY <2>2, <2>3, <2>5 DEF Sound, RestoringErased
  <2>7. pc = "write" => log[Len(log)].stage # "whole"
    BY DEF Shape, Placed
  <2>8. sys_getenv(log, k) = None
    BY <1>3, <2>6, <2>7, LookupMiss
  <2> QED BY <1>4, <2>3, <2>8
<1> QED BY <1>1, <1>5, <1>6 DEF Store!PowerFailure

\* The first states map to first states of EnvStore.
LEMMA StoreInit ==
    ASSUME Init
    PROVE  Store!Init
<1>1. Shape /\ waiting = None /\ ret = None /\ crashed = FALSE
  BY ShapeInit DEF Init
<1>2. ~Rewriting /\ log \in Seq(Block)
  BY <1>1 DEF Rewriting, Shape, TypeOK
<1>3. \A k \in Keys : EnvOf[k] \in Values \union {None}
  BY <1>2, LookupType, ViewIsLog
<1>4. EnvOf = [k \in Keys |-> EnvOf[k]]
  BY Viewed
<1>5. EnvOf \in [Keys -> Values \union {None}]
  BY <1>3, <1>4
<1> QED BY <1>1, <1>5 DEF Store!Init

\* Every step of the log is a step of the map, or none.
LEMMA StoreNext ==
    ASSUME ValuesAreNoNames, Shape, Shape', Intact, Intact', [Next]_vars
    PROVE  [Store!Next]_(Store!storeVars)
<1>1. CASE UNCHANGED vars
  BY <1>1 DEF vars, Store!storeVars, EnvOf
<1>2. CASE crashed
  <2>1. crashed'
    BY <1>2, CrashedStays
  <2> QED BY <1>2, <2>1 DEF Store!Next, Store!Broken
<1>3. CASE ~crashed /\ crashed' /\ Next
  <2>1. PowerFailure
    BY <1>3 DEF Next, Step, WriteHeader, WriteName, WriteValue, MarkOld, CopyBlock, Format,
                RestoreBlock, Defragged, Retry, Booted, Getenv, Unsetenv, Setenv, Defragenv,
                ReadByNumber, Spin, DefragFails, LoaderReads, vars
  <2>2. Store!PowerFailure
    BY <1>3, <2>1, IntactSound, StorePowerFailure
  <2> QED BY <2>2 DEF Store!Next
<1>4. CASE ~crashed /\ ~crashed' /\ Next
  <2>1. Sound /\ Sound' /\ pc # "boot"
    BY <1>4 DEF Intact, Sound
  <2>2. CASE Step
    <3>1. CASE WriteHeader \/ WriteName \/ CopyBlock \/ Format \/ RestoreBlock
      BY <1>4, <2>1, <3>1, CallStep, StoreWriteHeader, StoreWriteName, StoreCopyBlock,
         StoreFormat, StoreRestoreBlock
    <3>2. CASE WriteValue
      BY <1>4, <2>1, <3>2, CallStep, StoreWriteValue
    <3>3. CASE MarkOld
      BY <1>4, <2>1, <3>3, CallStep, StoreMarkOld
    <3>4. CASE Defragged
      BY <1>4, <2>1, <3>4, CallStep, StoreDefragged
    <3>5. CASE Retry
      BY <1>4, <2>1, <3>5, CallStep, StoreRetry
    <3> QED BY <2>1, <2>2, <3>1, <3>2, <3>3, <3>4, <3>5 DEF Step, Booted
  <2>3. CASE \E k \in Keys : Getenv(k) \/ Unsetenv(k)
    <3>1. PICK k \in Keys : Getenv(k) \/ Unsetenv(k)
      BY <2>3
    <3>2. Store!Get(k) \/ Store!Unset(k) \/ Store!UnsetFails(k)
      BY <2>1, <3>1, StoreGet, StoreUnset
    <3> QED BY <1>4, <3>2, CallStep
  <2>4. CASE \E k \in Keys, v \in Values : Setenv(k, v)
    <3>1. PICK k \in Keys, v \in Values : Setenv(k, v)
      BY <2>4
    <3>2. \/ Store!Internal \/ Store!Set(k, v) \/ Store!Refuse(k, v)
          \/ Store!Exhausted(k, v)
      BY <2>1, <3>1, StoreSet
    <3> QED BY <1>4, <3>2, CallStep
  <2>5. CASE Defragenv \/ ReadByNumber \/ DefragFails
    BY <1>4, <2>1, <2>5, CallStep, StoreDefragenv, NoReadByNumber, StoreDefragFails
  <2>6. CASE PowerFailure \/ LoaderReads
    BY <1>4, <2>1, <2>6 DEF PowerFailure, LoaderReads
  <2> QED BY <1>1, <1>4, <2>2, <2>3, <2>4, <2>5, <2>6 DEF Next, Spin
<1> QED BY <1>1, <1>2, <1>3, <1>4

\* The log in flash implements the map of EnvStore: for every set of variables
\* and values of which none is the name of a dynamic variable, every size of the
\* sector and every point where power, the erase or an allocation fails, each
\* get, set, unset and compaction has the effect and the answer of a map that
\* changes at one instant, and a power failure loses nothing unless it meets a
\* compaction.
THEOREM Implements ==
    ASSUME ValuesAreNoNames
    PROVE  Spec => ImplementsStore
<1>1. Init => Store!Init
  BY StoreInit
<1>2. Shape /\ Shape' /\ Intact /\ Intact' /\ [Next]_vars => [Store!Next]_(Store!storeVars)
  BY StoreNext
<1>3. Spec => []Shape /\ []Intact
  BY ShapeHolds, IntactHolds
<1> QED BY <1>1, <1>2, <1>3, PTL DEF Spec, ImplementsStore, Store!Spec
=============================================================================
