------------------------ MODULE BootEnvDamageProofs ------------------------
(***************************************************************************)
(* What power failures and failed compactions leave in the boot            *)
(* environment, for any number of them: the proof of DamageBounded.        *)
(*                                                                         *)
(* DamageInv names a set W of blocks, no larger than the number of faults, *)
(* without which the log is as tidy as before the first fault.  Each       *)
(* action keeps W, exchanges one member for another, or is a fault and     *)
(* adds one.                                                               *)
(***************************************************************************)
EXTENDS BootEnvProofs, FiniteSetTheorems

\* n is the log l with more garbage at most.
Fewer(l, n) ==
    /\ DOMAIN n = DOMAIN l
    /\ \A j \in DOMAIN l : SameBlock(l[j], n[j]) /\ (l[j].garbage => n[j].garbage)

\* The blocks of S are found under their names, and no two are of one variable.
Tidy(l, S) ==
    /\ \A i \in S : Matches(l[i].key, l[i])
    /\ \A i, j \in S : l[i].key = l[j].key => i = j

\* The blocks of l that count, without those in W.
Others(l, W) == {i \in DOMAIN l \ W : ~l[i].garbage}

\* A finite log has finitely many blocks.
LEMMA BlocksFinite ==
    ASSUME NEW l \in Seq(Block), NEW W \in SUBSET DOMAIN l
    PROVE  IsFiniteSet(W) /\ Cardinality(W) \in Nat
<1>1. Len(l) \in Nat /\ DOMAIN l = 1 .. Len(l)
  BY BlockFields
<1>2. IsFiniteSet(DOMAIN l)
  BY <1>1, FS_Interval
<1>3. IsFiniteSet(W)
  BY <1>2, FS_Subset
<1> QED BY <1>3, FS_CardinalityType

\* One block less and one block more that is excused.
LEMMA Swapped ==
    ASSUME NEW W, IsFiniteSet(W), NEW x \in W, NEW y
    PROVE  Cardinality((W \ {x}) \union {y}) <= Cardinality(W)
<1>1. Cardinality(W) \in Nat
  BY FS_CardinalityType
<1>2. IsFiniteSet(W \ {x}) /\ Cardinality(W \ {x}) = Cardinality(W) - 1
  BY FS_RemoveElement
<1>3. \/ Cardinality((W \ {x}) \union {y}) = Cardinality(W \ {x})
      \/ Cardinality((W \ {x}) \union {y}) = Cardinality(W \ {x}) + 1
  BY <1>2, FS_AddElement
<1> QED BY <1>1, <1>2, <1>3

\* A block matches by its name whatever its garbage bit.
LEMMA SameMatches ==
    ASSUME NEW b, NEW c, SameBlock(b, c), NEW k
    PROVE  Matches(k, b) <=> Matches(k, c)
  BY DEF SameBlock, Matches

\* More garbage leaves a tidy log tidy.
LEMMA FewerTidy ==
    ASSUME NEW l \in Seq(Block), NEW n \in Seq(Block), Fewer(l, n),
           NEW W, Tidy(l, Others(l, W))
    PROVE  Tidy(n, Others(n, W))
<1>1. Others(n, W) \subseteq Others(l, W)
  BY DEF Others, Fewer
<1>2. \A i \in Others(n, W) : SameBlock(l[i], n[i]) /\ n[i].key = l[i].key
  BY DEF Others, Fewer, SameBlock
<1>3. \A i \in Others(n, W) : Matches(n[i].key, n[i])
  BY <1>1, <1>2, SameMatches DEF Tidy
<1>4. \A i, j \in Others(n, W) : n[i].key = n[j].key => i = j
  BY <1>1, <1>2 DEF Tidy
<1> QED BY <1>3, <1>4 DEF Tidy

\* A mark is more garbage.
LEMMA MarkedFewer ==
    ASSUME NEW l \in Seq(Block), NEW i \in DOMAIN l
    PROVE  /\ EnvMakeGarbage(l, i) \in Seq(Block) /\ Fewer(l, EnvMakeGarbage(l, i))
           /\ Len(EnvMakeGarbage(l, i)) = Len(l)
<1>1. LET n == EnvMakeGarbage(l, i)
      IN  /\ n \in Seq(Block) /\ Len(n) = Len(l) /\ DOMAIN n = DOMAIN l
          /\ n[i].garbage /\ \A j \in DOMAIN l : j # i => n[j] = l[j]
          /\ \A j \in DOMAIN l : SameBlock(l[j], n[j])
  BY Marked
<1> QED BY <1>1 DEF Fewer

\* Nothing changed is no more garbage.
LEMMA SameFewer ==
    ASSUME NEW l
    PROVE  Fewer(l, l)
  BY DEF Fewer, SameBlock

\* Between the sets, DamageInv speaks of the log and the faults only.
LEMMA DamageQuiet ==
    ASSUME ~Writing
    PROVE  DamageInv <=> \E W \in SUBSET DOMAIN log :
                            Cardinality(W) <= faults /\ Tidy(log, Others(log, W))
<1>1. \A W : Rest(W) = Others(log, W)
  BY DEF Rest, Others
<1>2. \A W : Excused(W) <=> Tidy(log, Others(log, W))
  BY <1>1 DEF Excused, Tidy
<1> QED BY <1>2 DEF DamageInv

\* The same for the state after a step.
LEMMA DamageQuietNext ==
    ASSUME ~Writing', NEW W \in SUBSET DOMAIN log', Cardinality(W) <= faults',
           Tidy(log', Others(log', W))
    PROVE  DamageInv'
<1>1. Rest(W)' = Others(log', W)
  BY DEF Rest, Others
<1>2. Excused(W)'
  BY <1>1 DEF Excused, Tidy
<1> QED BY <1>2 DEF DamageInv

\* A step that writes no block and takes none back.
LEMMA DamageKept ==
    ASSUME Shape, DamageInv, ~Writing, ~Writing', log' \in Seq(Block), Fewer(log, log'),
           faults' \in Nat, faults <= faults'
    PROVE  DamageInv'
<1>1. log \in Seq(Block) /\ faults \in Nat
  BY ShapeParts DEF Good, OtherTypes
<1>2. PICK W \in SUBSET DOMAIN log :
         Cardinality(W) <= faults /\ Tidy(log, Others(log, W))
  BY DamageQuiet
<1>3. Cardinality(W) \in Nat
  BY <1>1, BlocksFinite
<1>4. Cardinality(W) <= faults'
  BY <1>1, <1>2, <1>3
<1>5. W \in SUBSET DOMAIN log'
  BY DEF Fewer
<1>6. Tidy(log', Others(log', W))
  BY <1>1, <1>2, FewerTidy
<1> QED BY <1>4, <1>5, <1>6, DamageQuietNext

\* While a set runs, DamageInv excuses the block that is being written too.
LEMMA DamageBusy ==
    ASSUME Writing, DamageInv
    PROVE  \E W \in SUBSET DOMAIN log :
              /\ Cardinality(W) <= faults
              /\ Tidy(log, Others(log, W \union {Len(log)}))
              /\ ~log[Len(log)].garbage /\ log[Len(log)].key = cur.key
              /\ pc = "mark" => log[Len(log)].stage = "whole"
              /\ cur.old # 0 => ~log[cur.old].garbage /\ log[cur.old].key = cur.key
              /\ cur.old = 0 => \A i \in Others(log, W \union {Len(log)}) :
                                   log[i].key # cur.key
<1>1. PICK W \in SUBSET DOMAIN log : Cardinality(W) <= faults /\ Excused(W)
  BY DEF DamageInv
<1>2. Rest(W) = Others(log, W \union {Len(log)})
  BY DEF Rest, Others
<1> QED BY <1>1, <1>2 DEF Excused, Tidy

\* The same for the state after a step.
LEMMA DamageBusyNext ==
    ASSUME Writing', NEW W \in SUBSET DOMAIN log', Cardinality(W) <= faults',
           Tidy(log', Others(log', W \union {Len(log')})),
           ~log'[Len(log')].garbage, log'[Len(log')].key = cur'.key,
           pc' = "mark" => log'[Len(log')].stage = "whole",
           cur'.old # 0 => ~log'[cur'.old].garbage /\ log'[cur'.old].key = cur'.key,
           cur'.old = 0 => \A i \in Others(log', W \union {Len(log')}) :
                              log'[i].key # cur'.key
    PROVE  DamageInv'
<1>1. Rest(W)' = Others(log', W \union {Len(log')})
  BY DEF Rest, Others
<1>2. Excused(W)'
  BY <1>1 DEF Excused, Tidy
<1> QED BY <1>2 DEF DamageInv

\* A block after the end of l changes nothing of the blocks of l.
LEMMA OthersAppended ==
    ASSUME NEW l \in Seq(Block), NEW n \in Seq(Block), Len(n) = Len(l) + 1,
           \A i \in DOMAIN l : n[i] = l[i], NEW W
    PROVE  /\ Others(n, W \union {Len(n)}) = Others(l, W)
           /\ Tidy(l, Others(l, W)) => Tidy(n, Others(n, W \union {Len(n)}))
           /\ \A i \in Others(l, W) : n[i].key = l[i].key
<1>1. /\ Len(l) \in Nat /\ DOMAIN l = 1 .. Len(l)
      /\ Len(n) \in Nat /\ DOMAIN n = 1 .. Len(n)
  BY BlockFields
<1>2. Others(n, W \union {Len(n)}) = Others(l, W)
  BY <1>1 DEF Others
<1>3. \A i \in Others(l, W) : n[i] = l[i]
  BY DEF Others
<1> QED BY <1>2, <1>3 DEF Tidy

\* What a set that meets no torn block finds before its first write, when W
\* excuses the log: an old block of its variable to mark, or none that the new
\* block repeats.
LEMMA SetFinds ==
    ASSUME ValuesAreNoNames, NEW l \in Seq(Block), NEW k \in Keys, NEW W \in SUBSET DOMAIN l,
           Tidy(l, Others(l, W)), ~Torn(l, k)
    PROVE  LET old == IF sys_getenv(l, k) = None THEN 0 ELSE GetEnvBlockByName(l, k)
           IN  /\ old # 0 => old \in DOMAIN l /\ ~l[old].garbage /\ l[old].key = k
               /\ old = 0 => \A i \in Others(l, W) : l[i].key # k
<1> DEFINE g == GetEnvBlockByName(l, k)
<1>1. \A i \in DOMAIN l : l[i] \in Block /\ l[i].val # None /\ l[i].garbage \in BOOLEAN
  BY BlockFields, EnvAssumption
<1>2. /\ g = 0 => \A j \in DOMAIN l : l[j].garbage \/ ~Matches(k, l[j])
      /\ g # 0 => g \in DOMAIN l /\ ~l[g].garbage /\ Matches(k, l[g])
  BY Found
<1>3. CASE g = 0
  <2>1. sys_getenv(l, k) = None
    BY <1>3 DEF sys_getenv
  <2>2. \A i \in Others(l, W) : l[i].key # k
    BY <1>2, <1>3 DEF Others, Tidy
  <2> QED BY <2>1, <2>2
<1>4. CASE g # 0
  <2>1. sys_getenv(l, k) # None
    BY <1>1, <1>2, <1>4 DEF Torn, sys_getenv
  <2>2. l[g].key = k
    BY <1>1, <1>2, <1>4, MatchesKey
  <2> QED BY <1>2, <1>4, <2>1, <2>2
<1> QED BY <1>3, <1>4

\* __sys_setenv up to its first write, from wherever it is called.
LEMMA DamageSetenv ==
    ASSUME ValuesAreNoNames, Shape, DamageInv, ~Writing, NEW k \in Keys, NEW v \in Values,
           __sys_setenv(k, v), UNCHANGED <<faults, crashed>>
    PROVE  DamageInv'
<1> DEFINE old == IF sys_getenv(log, k) = None THEN 0 ELSE GetEnvBlockByName(log, k)
<1>1. Good(log) /\ log \in Seq(Block) /\ faults \in Nat
  BY ShapeParts DEF Good, OtherTypes
<1>2. \/ EnterAgain
      \/ \E s : Return(log, k, v, s)
      \/ ~Torn(log, k) /\ WriteVarNum(log, k, v, old)
      \/ Defrag(log, [key |-> k, val |-> v])
  BY DEF __sys_setenv
<1>3. CASE EnterAgain \/ (\E s : Return(log, k, v, s)) \/ Defrag(log, [key |-> k, val |-> v])
  <2>1. log' = log /\ ~Writing'
    BY <1>3 DEF EnterAgain, Return, Defrag, Writing
  <2> QED BY <1>1, <2>1, SameFewer, DamageKept
<1>4. CASE ~Torn(log, k) /\ WriteVarNum(log, k, v, old)
  <2>1. PICK W \in SUBSET DOMAIN log :
           Cardinality(W) <= faults /\ Tidy(log, Others(log, W))
    BY DamageQuiet
  <2>2. /\ old # 0 => old \in DOMAIN log /\ ~log[old].garbage /\ log[old].key = k
        /\ old = 0 => \A i \in Others(log, W) : log[i].key # k
    BY <1>1, <1>4, <2>1, SetFinds
  <2> HIDE DEF old
  <2>3. /\ log' = Append(log, NewBlock(log, k, v))
        /\ Writing' /\ pc' # "mark"
        /\ cur'.key = k /\ cur'.old = old
    BY <1>4 DEF WriteVarNum, NewBlock, Writing
  <2>4. /\ Good(log') /\ Len(log') = Len(log) + 1 /\ DOMAIN log' = 1 .. Len(log) + 1
        /\ \A i \in DOMAIN log : log'[i] = log[i]
        /\ log'[Len(log')] = NewBlock(log, k, v)
    BY <1>1, <2>3, AppendGood
  <2>5. log' \in Seq(Block)
    BY <2>4 DEF Good
  <2>6. ~log'[Len(log')].garbage /\ log'[Len(log')].key = k
    BY <2>4 DEF NewBlock
  <2>7. W \in SUBSET DOMAIN log' /\ Cardinality(W) <= faults'
    <3>1. DOMAIN log = 1 .. Len(log) /\ Len(log) \in Nat
      BY <1>1, BlockFields
    <3> QED BY <2>1, <2>4, <3>1
  <2>8. /\ Others(log', W \union {Len(log')}) = Others(log, W)
        /\ Tidy(log', Others(log', W \union {Len(log')}))
        /\ \A i \in Others(log, W) : log'[i].key = log[i].key
    BY <1>1, <2>1, <2>4, <2>5, OthersAppended
  <2>9. cur'.old # 0 => ~log'[cur'.old].garbage /\ log'[cur'.old].key = cur'.key
    BY <2>2, <2>3, <2>4
  <2>10. cur'.old = 0 => \A i \in Others(log', W \union {Len(log')}) :
                            log'[i].key # cur'.key
    BY <2>2, <2>3, <2>8
  <2> QED BY <2>3, <2>6, <2>7, <2>8, <2>9, <2>10, DamageBusyNext
<1> QED BY <1>2, <1>3, <1>4

\* The last block may be written further: what is excused stays so.
LEMMA OthersWritten ==
    ASSUME NEW l \in Seq(Block), NEW n \in Seq(Block), Len(n) = Len(l), l # <<>>,
           \A i \in DOMAIN l : i # Len(l) => n[i] = l[i], NEW W
    PROVE  /\ Others(n, W \union {Len(n)}) = Others(l, W \union {Len(l)})
           /\ \A i \in Others(n, W \union {Len(n)}) : n[i] = l[i]
           /\ Tidy(l, Others(l, W \union {Len(l)})) => Tidy(n, Others(n, W \union {Len(n)}))
<1>1. DOMAIN l = 1 .. Len(l) /\ DOMAIN n = 1 .. Len(n)
  BY BlockFields
<1>2. Others(n, W \union {Len(n)}) = Others(l, W \union {Len(l)})
  BY <1>1 DEF Others
<1>3. \A i \in Others(l, W \union {Len(l)}) : n[i] = l[i]
  BY DEF Others
<1> QED BY <1>2, <1>3 DEF Tidy

\* A set that writes its block further and goes on.
LEMMA DamageWrites ==
    ASSUME Shape, DamageInv, Writing, Writing', log' \in Seq(Block), Len(log') = Len(log),
           \A i \in DOMAIN log : i # Len(log) => log'[i] = log[i],
           log'[Len(log)].garbage = log[Len(log)].garbage,
           log'[Len(log)].key = log[Len(log)].key,
           pc' = "mark" => log'[Len(log)].stage = "whole",
           UNCHANGED <<cur, faults>>
    PROVE  DamageInv'
<1>1. log \in Seq(Block) /\ log # <<>> /\ cur.old \in 0 .. Len(log) - 1
  BY ShapeParts DEF Good, Placed
<1>2. DOMAIN log = 1 .. Len(log) /\ DOMAIN log' = 1 .. Len(log) /\ Len(log) \in Nat
  BY <1>1, BlockFields
<1>3. PICK W \in SUBSET DOMAIN log :
         /\ Cardinality(W) <= faults
         /\ Tidy(log, Others(log, W \union {Len(log)}))
         /\ ~log[Len(log)].garbage /\ log[Len(log)].key = cur.key
         /\ cur.old # 0 => ~log[cur.old].garbage /\ log[cur.old].key = cur.key
         /\ cur.old = 0 => \A i \in Others(log, W \union {Len(log)}) :
                              log[i].key # cur.key
  BY DamageBusy
<1>4. /\ Others(log', W \union {Len(log')}) = Others(log, W \union {Len(log)})
      /\ \A i \in Others(log', W \union {Len(log')}) : log'[i] = log[i]
      /\ Tidy(log', Others(log', W \union {Len(log')}))
  BY <1>1, <1>3, OthersWritten
<1>5. cur'.old # 0 => ~log'[cur'.old].garbage /\ log'[cur'.old].key = cur'.key
  <2>1. cur.old # 0 => cur.old \in DOMAIN log /\ cur.old # Len(log)
    BY <1>1, <1>2
  <2> QED BY <1>3, <2>1
<1>6. cur'.old = 0 => \A i \in Others(log', W \union {Len(log')}) :
                         log'[i].key # cur'.key
  BY <1>3, <1>4
<1>7. W \in SUBSET DOMAIN log' /\ Cardinality(W) <= faults'
  BY <1>2, <1>3
<1>8. ~log'[Len(log')].garbage /\ log'[Len(log')].key = cur'.key
  BY <1>3
<1> QED BY <1>4, <1>5, <1>6, <1>7, <1>8, DamageBusyNext

\* The rest of the header is written.
LEMMA DamageWriteHeader ==
    ASSUME Shape, DamageInv, WriteHeader
    PROVE  DamageInv'
<1> DEFINE l == log[Len(log)]
           b == [[l EXCEPT !.stage = "head"] EXCEPT !.cells = Cells(cur.key, cur.val)]
<1>1. /\ b \in Block /\ b.key = l.key /\ b.garbage = l.garbage
      /\ log' = [log EXCEPT ![Len(log)] = b] /\ Len(log) \in DOMAIN log
  BY HeaderWritten
<1>2. log \in Seq(Block)
  BY ShapeParts DEF Good
<1> HIDE DEF b
<1>3. /\ log' \in Seq(Block) /\ Len(log') = Len(log) /\ log'[Len(log)] = b
      /\ \A i \in DOMAIN log : i # Len(log) => log'[i] = log[i]
  BY <1>1, <1>2, Replaced
<1>4. Writing /\ Writing' /\ UNCHANGED <<cur, faults>>
  BY DEF WriteHeader, Writing
<1>5. pc' # "mark"
  BY DEF WriteHeader
<1> QED BY <1>1, <1>3, <1>4, <1>5, DamageWrites

\* The name is written.
LEMMA DamageWriteName ==
    ASSUME Shape, DamageInv, WriteName
    PROVE  DamageInv'
<1> DEFINE l == log[Len(log)]
           d == [l EXCEPT !.stage = "name"]
<1>1. pc = "write" /\ pc' = "write" /\ Writing /\ Writing' /\ UNCHANGED <<cur, faults>>
  BY DEF WriteName, Writing
<1>2. /\ d \in Block /\ d.key = l.key /\ d.garbage = l.garbage
      /\ Len(log) \in DOMAIN log
  BY <1>1, WrittenBlock
<1>3. log' = [log EXCEPT ![Len(log)] = d]
  BY <1>2 DEF WriteName, Last
<1>4. log \in Seq(Block)
  BY ShapeParts DEF Good
<1> HIDE DEF d
<1>5. /\ log' \in Seq(Block) /\ Len(log') = Len(log) /\ log'[Len(log)] = d
      /\ \A i \in DOMAIN log : i # Len(log) => log'[i] = log[i]
  BY <1>2, <1>3, <1>4, Replaced
<1> QED BY <1>1, <1>2, <1>5, DamageWrites

\* A set without an old block ends with the value: the new block is the only one
\* of its variable that W does not excuse.
LEMMA DamageWriteValue ==
    ASSUME Shape, DamageInv, WriteValue
    PROVE  DamageInv'
<1> DEFINE l == [log EXCEPT ![Last].stage = "whole"]
<1>1. Writing /\ pc = "write"
  BY DEF WriteValue, Writing
<1>2. log \in Seq(Block) /\ log # <<>> /\ cur.old \in 0 .. Len(log) - 1
  BY <1>1, ShapeParts DEF Good, Placed
<1>3. /\ l \in Seq(Block) /\ Len(l) = Len(log) /\ DOMAIN l = DOMAIN log
      /\ l[Len(l)].key = log[Len(log)].key /\ l[Len(l)].garbage = log[Len(log)].garbage
      /\ l[Len(l)].stage = "whole"
      /\ \A j \in DOMAIN log : j # Len(log) => l[j] = log[j]
  BY ValueWritten DEF Good
<1>4. log' = l /\ UNCHANGED faults
  BY DEF WriteValue, Return
<1> HIDE DEF l
<1>5. CASE cur.old # 0
  <2>1. Writing' /\ UNCHANGED cur
    BY <1>5 DEF WriteValue, Writing
  <2> QED BY <1>1, <1>3, <1>4, <2>1, DamageWrites
<1>6. CASE cur.old = 0
  <2>1. ~Writing'
    BY <1>6 DEF WriteValue, Return, Writing
  <2>2. PICK W \in SUBSET DOMAIN log :
           /\ Cardinality(W) <= faults
           /\ Tidy(log, Others(log, W \union {Len(log)}))
           /\ ~log[Len(log)].garbage /\ log[Len(log)].key = cur.key
           /\ \A i \in Others(log, W \union {Len(log)}) : log[i].key # cur.key
    BY <1>1, <1>6, DamageBusy
  <2>3. /\ Others(l, W \union {Len(l)}) = Others(log, W \union {Len(log)})
        /\ \A i \in Others(l, W \union {Len(l)}) : l[i] = log[i]
        /\ Tidy(l, Others(l, W \union {Len(l)}))
    BY <1>2, <1>3, <2>2, OthersWritten
  <2>4. Tidy(l, Others(l, W))
    <3>1. \A i \in Others(l, W) : i # Len(l) => i \in Others(l, W \union {Len(l)})
      BY DEF Others
    <3>2. \A i \in Others(l, W) : i # Len(l) => l[i].key # l[Len(l)].key
      BY <1>3, <2>2, <2>3, <3>1
    <3>3. \A i, j \in Others(l, W) : l[i].key = l[j].key => i = j
      BY <2>3, <3>1, <3>2 DEF Tidy
    <3>4. Matches(l[Len(l)].key, l[Len(l)])
      BY <1>3 DEF Matches
    <3>5. \A i \in Others(l, W) : Matches(l[i].key, l[i])
      BY <2>3, <3>1, <3>4 DEF Tidy
    <3> QED BY <3>3, <3>5 DEF Tidy
  <2>5. W \in SUBSET DOMAIN log' /\ Cardinality(W) <= faults'
    BY <1>3, <1>4, <2>2
  <2> QED BY <1>4, <2>1, <2>4, <2>5, DamageQuietNext
<1> QED BY <1>5, <1>6

\* The mark pays for the new block: the old one was the only one of its variable
\* that W does not excuse, or W excuses the new one in its place.
LEMMA DamageMarkOld ==
    ASSUME Shape, DamageInv, MarkOld
    PROVE  DamageInv'
<1> DEFINE o == cur.old
           l == EnvMakeGarbage(log, o)
           n == Len(log)
<1>1. Writing /\ pc = "mark"
  BY DEF MarkOld, Writing
<1>2. log \in Seq(Block) /\ log # <<>> /\ o \in 0 .. n - 1 /\ o # 0
  BY <1>1, ShapeParts DEF Good, Placed
<1>3. DOMAIN log = 1 .. n /\ n \in Nat
  BY <1>2, BlockFields
<1>4. o \in DOMAIN log /\ n \in DOMAIN log /\ o # n
  BY <1>2, <1>3
<1>5. /\ l \in Seq(Block) /\ Len(l) = n /\ DOMAIN l = DOMAIN log
      /\ l[o].garbage /\ \A j \in DOMAIN log : j # o => l[j] = log[j]
  BY <1>2, <1>4, Marked
<1>6. log' = l /\ ~Writing' /\ faults' = faults
  BY DEF MarkOld, Return, Writing
<1>7. PICK W \in SUBSET DOMAIN log :
         /\ Cardinality(W) <= faults
         /\ Tidy(log, Others(log, W \union {n}))
         /\ ~log[n].garbage /\ log[n].key = cur.key /\ log[n].stage = "whole"
         /\ ~log[o].garbage /\ log[o].key = cur.key
  BY <1>1, <1>2, DamageBusy
<1>8. log[n].key = log[o].key
  BY <1>7
<1>9. IsFiniteSet(W) /\ Cardinality(W) \in Nat /\ faults \in Nat
  BY <1>2, BlocksFinite, ShapeParts DEF OtherTypes
<1> HIDE DEF l, o, n
<1>10. CASE o \in W
  <2> DEFINE V == (W \ {o}) \union {n}
  <2>1. V \in SUBSET DOMAIN l
    BY <1>4, <1>5
  <2>2. Cardinality(V) <= faults
    <3>1. Cardinality(V) <= Cardinality(W)
      BY <1>9, <1>10, Swapped
    <3>2. Cardinality(V) \in Nat
      BY <1>5, <2>1, BlocksFinite
    <3> HIDE DEF V
    <3> QED BY <1>7, <1>9, <3>1, <3>2
  <2>3. \A i \in Others(l, V) : i \in Others(log, W \union {n}) /\ l[i] = log[i]
    BY <1>5 DEF Others
  <2>4. Tidy(l, Others(l, V))
    BY <1>7, <2>3 DEF Tidy
  <2> HIDE DEF V
  <2> QED BY <1>6, <2>1, <2>2, <2>4, DamageQuietNext
<1>11. CASE o \notin W
  <2>1. o \in Others(log, W \union {n})
    BY <1>4, <1>7, <1>11 DEF Others
  <2>2. \A i \in Others(l, W) : i # o /\ l[i] = log[i]
    BY <1>5 DEF Others
  <2>3. \A i \in Others(l, W) : i # n => i \in Others(log, W \union {n})
    BY <1>5, <2>2 DEF Others
  <2>4. \A i \in Others(l, W) : i # n => l[i].key # log[n].key
    BY <1>7, <1>8, <2>1, <2>2, <2>3 DEF Tidy
  <2>5. \A i, j \in Others(l, W) : l[i].key = l[j].key => i = j
    BY <1>7, <2>2, <2>3, <2>4 DEF Tidy
  <2>6. \A i \in Others(l, W) : i # n => Matches(l[i].key, l[i])
    BY <1>7, <2>2, <2>3 DEF Tidy
  <2>7. Matches(log[n].key, log[n])
    BY <1>7 DEF Matches
  <2>8. Tidy(l, Others(l, W))
    BY <2>2, <2>5, <2>6, <2>7 DEF Tidy
  <2> QED BY <1>5, <1>6, <1>7, <2>8, DamageQuietNext
<1> QED BY <1>10, <1>11

\* A power failure leaves the block that was being written: it is excused from
\* now on, by the fault.
LEMMA DamagePowerFailure ==
    ASSUME Shape, DamageInv, PowerFailure
    PROVE  DamageInv'
<1>1. log \in Seq(Block) /\ faults \in Nat
  BY ShapeParts DEF Good, OtherTypes
<1>2. log' = log /\ ~Writing' /\ faults' = faults + 1
  BY DEF PowerFailure, Writing
<1>3. CASE ~Writing
  BY <1>1, <1>2, <1>3, SameFewer, DamageKept
<1>4. CASE Writing
  <2>1. PICK W \in SUBSET DOMAIN log :
           /\ Cardinality(W) <= faults
           /\ Tidy(log, Others(log, W \union {Len(log)}))
    BY <1>4, DamageBusy
  <2>2. log # <<>>
    BY <1>4, ShapeParts DEF Placed
  <2>3. Len(log) \in DOMAIN log
    BY <2>2, ShapeParts, EndIsLast
  <2>4. IsFiniteSet(W) /\ Cardinality(W) \in Nat
    BY <1>1, BlocksFinite
  <2>5. \/ Cardinality(W \union {Len(log)}) = Cardinality(W)
        \/ Cardinality(W \union {Len(log)}) = Cardinality(W) + 1
    BY <2>4, FS_AddElement
  <2>6. Cardinality(W \union {Len(log)}) <= faults'
    BY <1>1, <1>2, <2>1, <2>4, <2>5
  <2> QED BY <1>2, <2>1, <2>3, <2>6, DamageQuietNext
<1> QED BY <1>3, <1>4

\* An erased sector has nothing to excuse.
LEMMA DamageFormat ==
    ASSUME Shape, Format
    PROVE  DamageInv'
<1>1. log' = <<>> /\ ~Writing' /\ faults' = faults
  BY DEF Format, Writing
<1>2. faults \in Nat
  BY ShapeParts DEF OtherTypes
<1>3. Cardinality({}) <= faults'
  BY <1>1, <1>2, FS_EmptySet
<1>4. DOMAIN log' = {}
  BY <1>1
<1>5. Tidy(log', Others(log', {}))
  BY <1>4 DEF Tidy, Others
<1> QED BY <1>1, <1>3, <1>5, DamageQuietNext

\* The steps that leave the log alone.
LEMMA DamageUnchanged ==
    ASSUME Shape, DamageInv,
           \/ CopyBlock \/ DefragFails \/ Defragged \/ Defragenv \/ ReadByNumber
           \/ Booted \/ \E k \in Keys : Getenv(k)
    PROVE  DamageInv'
<1>1. log \in Seq(Block) /\ faults \in Nat
  BY ShapeParts DEF Good, OtherTypes
<1>2. /\ log' = log /\ ~Writing /\ ~Writing'
      /\ faults' = faults \/ faults' = faults + 1
  BY DEF CopyBlock, DefragFails, Defragged, Defragenv, Defrag, ReadByNumber, Booted,
         Getenv, EnterAgain, Writing
<1>3. faults' \in Nat /\ faults <= faults'
  BY <1>1, <1>2
<1> QED BY <1>1, <1>2, <1>3, SameFewer, DamageKept

\* The steps that mark one block.
LEMMA DamageMarks ==
    ASSUME Shape, DamageInv, LoaderReads \/ \E k \in Keys : Unsetenv(k)
    PROVE  DamageInv'
<1>1. log \in Seq(Block) /\ faults \in Nat
  BY ShapeParts DEF Good, OtherTypes
<1>2. ~Writing /\ ~Writing' /\ faults' = faults
  BY DEF LoaderReads, Unsetenv, Writing
<1>3. log' \in Seq(Block) /\ Fewer(log, log')
  <2>1. CASE LoaderReads
    BY <1>1, <2>1, MarkedFewer DEF LoaderReads
  <2>2. ASSUME NEW k \in Keys, Unsetenv(k) PROVE log' \in Seq(Block) /\ Fewer(log, log')
    <3>1. GetEnvBlockByName(log, k) # 0 => GetEnvBlockByName(log, k) \in DOMAIN log
      BY <1>1, Found
    <3>2. \/ log' = log
          \/ /\ GetEnvBlockByName(log, k) # 0
             /\ log' = EnvMakeGarbage(log, GetEnvBlockByName(log, k))
      BY <2>2 DEF Unsetenv
    <3> QED BY <1>1, <3>1, <3>2, SameFewer, MarkedFewer
  <2> QED BY <2>1, <2>2
<1> QED BY <1>1, <1>2, <1>3, DamageKept

\* The calls of __sys_setenv: by a caller, by the restoring loop, and again after
\* sys_defragenv.
LEMMA DamageSets ==
    ASSUME ValuesAreNoNames, Shape, DamageInv,
           RestoreBlock \/ Retry \/ \E k \in Keys, v \in Values : Setenv(k, v)
    PROVE  DamageInv'
<1>1. OtherTypes /\ Placed /\ log \in Seq(Block) /\ faults \in Nat
  BY ShapeParts DEF Good, OtherTypes
<1>2. CASE RestoreBlock
  <2>1. ram # <<>> /\ ~Writing
    BY <1>2 DEF RestoreBlock, Writing
  <2>2. Head(ram) \in Copies
    BY <1>1, <2>1, HeadTailProperties DEF OtherTypes
  <2>3. Head(ram).key \in Keys /\ Head(ram).val \in Values
    BY <2>2 DEF Copies
  <2>4. __sys_setenv(Head(ram).key, Head(ram).val) /\ UNCHANGED <<faults, crashed>>
    BY <1>2 DEF RestoreBlock
  <2> QED BY <2>1, <2>3, <2>4, DamageSetenv
<1>3. CASE Retry
  <2>1. cur.key \in Keys /\ cur.val \in Values /\ ~Writing
    BY <1>1, <1>3 DEF Retry, Placed, Writing
  <2>2. __sys_setenv(cur.key, cur.val) /\ UNCHANGED <<faults, crashed>>
    BY <1>3 DEF Retry
  <2> QED BY <2>1, <2>2, DamageSetenv
<1>4. ASSUME NEW k \in Keys, NEW v \in Values, Setenv(k, v) PROVE DamageInv'
  <2>1. ~Writing
    BY <1>4 DEF Setenv, Writing
  <2>2. CASE k \in ReadOnly
    <3>1. log' = log /\ ~Writing' /\ faults' = faults
      BY <1>4, <2>2 DEF Setenv, Writing
    <3> QED BY <1>1, <2>1, <3>1, SameFewer, DamageKept
  <2>3. CASE k \notin ReadOnly
    <3>1. __sys_setenv(k, v) /\ UNCHANGED <<faults, crashed>>
      BY <1>4, <2>3 DEF Setenv
    <3> QED BY <2>1, <3>1, DamageSetenv
  <2> QED BY <2>2, <2>3
<1> QED BY <1>2, <1>3, <1>4

\* DamageInv holds in the first state: there is at most one block.
LEMMA DamageInit ==
    ASSUME Init
    PROVE  DamageInv
<1>1. ~Writing /\ faults = 0
  BY DEF Init, Writing
<1>2. \A i, j \in DOMAIN log : i = j /\ log[i].stage = "whole"
  <2>1. CASE log = <<>>
    BY <2>1
  <2>2. CASE log # <<>>
    <3>1. PICK b : log = <<b>> /\ b.stage = "whole"
      BY <2>2 DEF Init
    <3>2. \A i \in DOMAIN log : i = 1 /\ log[i] = b
      BY <3>1
    <3> QED BY <3>1, <3>2
  <2> QED BY <2>1, <2>2
<1>3. Tidy(log, Others(log, {}))
  BY <1>2 DEF Tidy, Others, Matches
<1>4. Cardinality({}) <= faults
  BY <1>1, FS_EmptySet
<1> QED BY <1>1, <1>3, <1>4, DamageQuiet

\* Every step keeps DamageInv.
LEMMA DamageNext ==
    ASSUME ValuesAreNoNames, Shape, DamageInv, [Next]_vars
    PROVE  DamageInv'
<1>1. CASE UNCHANGED vars
  BY <1>1 DEF vars, DamageInv, Excused, Rest, Writing
<1>2. CASE Step
  BY <1>2, DamageWriteHeader, DamageWriteName, DamageWriteValue, DamageMarkOld,
     DamageFormat, DamageSets, DamageUnchanged DEF Step
<1>3. CASE ReadByNumber \/ Defragenv \/ DefragFails \/ \E k \in Keys : Getenv(k)
  BY <1>3, DamageUnchanged
<1>4. CASE LoaderReads \/ \E k \in Keys : Unsetenv(k)
  BY <1>4, DamageMarks
<1>5. CASE \E k \in Keys, v \in Values : Setenv(k, v)
  BY <1>5, DamageSets
<1>6. CASE PowerFailure
  BY <1>6, DamagePowerFailure
<1>7. CASE Spin
  BY <1>1, <1>7 DEF Spin
<1> QED BY <1>1, <1>2, <1>3, <1>4, <1>5, <1>6, <1>7 DEF Next

\* If the blocks outside X are all of different variables, there are no more
\* surplus blocks than X has members: a surplus block outside X is charged to the
\* first block of its variable, which is in X and no surplus block.
LEMMA SurplusCharged ==
    ASSUME log \in Seq(Block), NEW X \in SUBSET DOMAIN log, Tidy(log, Others(log, X))
    PROVE  Cardinality(Surplus) <= Cardinality(X)
<1> DEFINE Of(i) == {j \in DOMAIN log : ~log[j].garbage /\ log[j].key = log[i].key}
           f == [i \in Surplus |-> IF i \in X THEN i ELSE First(Of(i))]
<1>1. DOMAIN log = 1 .. Len(log) /\ Len(log) \in Nat
  BY BlockFields
<1>2. ASSUME NEW i \in Surplus, i \notin X
      PROVE  /\ First(Of(i)) \in X /\ First(Of(i)) \notin Surplus
             /\ log[First(Of(i))].key = log[i].key
    <2>1. Of(i) \in SUBSET (Nat \ {0}) /\ i \in Of(i) /\ i \in DOMAIN log
      BY <1>1 DEF Surplus
    <2>2. PICK j \in 1 .. i - 1 : ~log[j].garbage /\ log[j].key = log[i].key
      BY DEF Surplus
    <2>3. j \in Of(i) /\ j < i /\ j \in Nat /\ i \in Nat
      BY <1>1, <2>1, <2>2
    <2> DEFINE m == First(Of(i))
    <2>4. m \in Of(i) /\ \A y \in Of(i) : m <= y
      BY <2>1, FirstIsLeast
    <2> HIDE DEF m
    <2>5. m \in DOMAIN log /\ ~log[m].garbage /\ log[m].key = log[i].key /\ m \in Nat
      BY <1>1, <2>4
    <2>6. m # i
      BY <2>3, <2>4, <2>5
    <2>7. m \in X
      <3>1. i \in Others(log, X)
        BY <1>2, <2>1 DEF Others
      <3> QED BY <2>5, <2>6, <3>1 DEF Tidy, Others
    <2>8. m \notin Surplus
      <3>1. ASSUME NEW y \in 1 .. m - 1, ~log[y].garbage, log[y].key = log[m].key
            PROVE  FALSE
        <4>1. y \in Of(i) /\ y < m
          BY <1>1, <2>5, <3>1
        <4> QED BY <2>4, <2>5, <4>1
      <3> QED BY <3>1 DEF Surplus
    <2> QED BY <2>5, <2>7, <2>8 DEF m
<1>3. f \in [Surplus -> X]
  BY <1>2
<1>4. ASSUME NEW a \in Surplus, NEW b \in Surplus, f[a] = f[b] PROVE a = b
  <2>1. CASE a \in X /\ b \in X
    BY <1>4, <2>1
  <2>2. CASE a \in X /\ b \notin X
    BY <1>2, <1>4, <2>2
  <2>3. CASE a \notin X /\ b \in X
    BY <1>2, <1>4, <2>3
  <2>4. CASE a \notin X /\ b \notin X
    <3>1. log[a].key = log[b].key
      BY <1>2, <1>4, <2>4
    <3>2. a \in Others(log, X) /\ b \in Others(log, X)
      BY <2>4 DEF Others, Surplus
    <3> QED BY <3>1, <3>2 DEF Tidy
  <2> QED BY <2>1, <2>2, <2>3, <2>4
<1>5. f \in Injection(Surplus, X)
  <2>1. DOMAIN f = Surplus
    OBVIOUS
  <2> HIDE DEF f
  <2> QED BY <1>3, <1>4, <2>1 DEF Injection, IsInjective
<1>6. IsFiniteSet(X)
  BY BlocksFinite
<1> QED BY <1>5, <1>6, FS_Injection

\* DamageInv bounds the surplus blocks.
LEMMA DamageCounted ==
    ASSUME Shape, DamageInv
    PROVE  DamageBounded
<1>1. log \in Seq(Block) /\ faults \in Nat
  BY ShapeParts DEF Good, OtherTypes
<1>2. CASE ~Writing
  <2>1. PICK W \in SUBSET DOMAIN log :
           Cardinality(W) <= faults /\ Tidy(log, Others(log, W))
    BY <1>2, DamageQuiet
  <2>2. Cardinality(Surplus) <= Cardinality(W) /\ Cardinality(W) \in Nat
    BY <1>1, <2>1, SurplusCharged, BlocksFinite
  <2>3. Surplus \in SUBSET DOMAIN log
    BY DEF Surplus
  <2>4. Cardinality(Surplus) \in Nat
    BY <1>1, <2>3, BlocksFinite
  <2> QED BY <1>1, <1>2, <2>1, <2>2, <2>4 DEF DamageBounded, Writing
<1>3. CASE Writing
  <2>1. PICK W \in SUBSET DOMAIN log :
           Cardinality(W) <= faults /\ Tidy(log, Others(log, W \union {Len(log)}))
    BY <1>3, DamageBusy
  <2>2. log # <<>>
    BY <1>3, ShapeParts DEF Placed
  <2>3. Len(log) \in DOMAIN log
    BY <2>2, ShapeParts, EndIsLast
  <2>4. IsFiniteSet(W) /\ Cardinality(W) \in Nat
    BY <1>1, BlocksFinite
  <2>5. \/ Cardinality(W \union {Len(log)}) = Cardinality(W)
        \/ Cardinality(W \union {Len(log)}) = Cardinality(W) + 1
    BY <2>4, FS_AddElement
  <2>6. Cardinality(Surplus) <= Cardinality(W \union {Len(log)})
    BY <1>1, <2>1, <2>3, SurplusCharged
  <2>7. Surplus \in SUBSET DOMAIN log
    BY DEF Surplus
  <2>8. Cardinality(Surplus) \in Nat
    BY <1>1, <2>7, BlocksFinite
  <2> QED BY <1>1, <1>3, <2>1, <2>4, <2>5, <2>6, <2>8 DEF DamageBounded, Writing
<1> QED BY <1>2, <1>3

\* Every power failure, failed erase or failed vmalloc leaves at most one block
\* too many that counts, and no later boot, set, unset or compaction adds to the
\* damage: a set that misses a torn block of its variable appends a block that
\* the fault already stands for, and a call that meets one writes nothing more.
THEOREM DamageDoesNotSpread ==
    ASSUME ValuesAreNoNames
    PROVE  Spec => []DamageBounded
<1>1. Init => DamageInv
  BY DamageInit
<1>2. Shape /\ DamageInv /\ [Next]_vars => DamageInv'
  BY DamageNext
<1>3. Shape /\ DamageInv => DamageBounded
  BY DamageCounted
<1> QED BY <1>1, <1>2, <1>3, ShapeHolds, PTL DEF Spec
=============================================================================
