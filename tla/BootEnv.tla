------------------------------- MODULE BootEnv -------------------------------
(***************************************************************************)
(* The boot loader's environment as the kernel keeps it                    *)
(* (arch/mips/mips-boards/ti_avalanche/ti_pspboot/env.c, adam2_api.c): a   *)
(* log of blocks in one flash sector.  A variable is changed by appending  *)
(* a new block, byte by byte, and then clearing a bit of the old one; a    *)
(* full log is copied to RAM, erased and written again.  Power may fail    *)
(* between any two writes; the boot loader then reads the environment      *)
(* before the kernel does.                                                 *)
(*                                                                         *)
(* A block is a record: the variable, the value, how far it is written     *)
(* (stage), the garbage and permanent bits of ctrl, its offset and its     *)
(* length in cells.  Aliases of a predefined variable are one key, as they *)
(* have one varNum.                                                        *)
(***************************************************************************)
EXTENDS Naturals, Sequences, FiniteSets, Searches

CONSTANTS
    Predefined,   \* variables of env_ns[], stored by number
    Dynamic,      \* variables stored by name
    Values,       \* strings a variable may be set to
    ReadOnly,     \* IsReadOnlyVar
    Permanent,    \* variables the boot loader stored with ENV_PERM_BIT
    CellsOf,      \* CellsOf[<<k, v>>]: cells of a block
    SpaceCells,   \* cells after the header block
    TornCells,    \* what a numCells that is not yet written (0xFF) reads as
    MaxFaults,    \* bound: power failures, failures of vmalloc or of FWBErase
    None          \* no value, no call

Keys == Predefined \union Dynamic
Cells(k, v) == CellsOf[<<k, v>>]

ASSUME EnvAssumption ==
    /\ Predefined \intersect Dynamic = {}
    /\ None \notin Values /\ None \notin Keys
    /\ None \notin [key : Keys \union {None}, val : Values \union {None}]
    /\ ReadOnly \subseteq Keys /\ Permanent \subseteq Predefined
    /\ CellsOf \in [Keys \X Values -> Nat \ {0}]
    /\ SpaceCells \in Nat /\ TornCells \in Nat \ {0}
    /\ MaxFaults \in Nat

\* No value is the name of a dynamic variable.  GetEnvBlockByName compares such
\* a name with the data of every block, the values of predefined ones included.
ValuesAreNoNames == Values \intersect Dynamic = {}

VARIABLES
    log,         \* the blocks, in flash order
    pc,          \* where the running call is
    cur,         \* the __sys_setenv that writes: key, val, index of the old block
    waiting,     \* the caller of sys_defragenv: a set, Explicit, or None
    ram,         \* ppRamStore, from the entry to be written next; at is where
                 \* the block was
    pos,         \* the copy to RAM: the last block it has visited
    defragFail,
    ret,         \* the last call that returned
    faults, crashed

vars == <<log, pc, cur, waiting, ram, pos, defragFail, ret, faults, crashed>>

Stages == {"num", "head", "name", "whole"}
Explicit == [key |-> None, val |-> None]
Idle == [key |-> None, val |-> None, old |-> 0]

Answer(op, k, v, status) == [op |-> op, key |-> k, val |-> v, status |-> status]

-----------------------------------------------------------------------------
(* Reading the log. *)

\* Variant: the length of the last block is forgotten.
End_short(l) == IF l = <<>> THEN 0 ELSE l[Len(l)].at + 1

End(l) == IF l = <<>> THEN 0 ELSE l[Len(l)].at + l[Len(l)].cells

\* A predefined variable is known by varNum, the first byte written; a dynamic
\* one by the string at the start of the data.
Matches(k, b) ==
    IF k \in Predefined
    THEN b.key = k
    ELSE \/ b.key = k /\ b.stage \in {"name", "whole"}
         \/ b.key \in Predefined /\ b.stage = "whole" /\ b.val = k

GetEnvBlockByName(l, k) ==
    First({i \in DOMAIN l : ~l[i].garbage /\ Matches(k, l[i])})

EnvMakeGarbage(l, i) == [l EXCEPT ![i].garbage = TRUE]

\* The checksum is right exactly for blocks that are written to the end.
BadChecksum(b) == b.stage # "whole"

\* Variant: a read of a torn block returns without marking it.
Torn_returns(l, k) == FALSE

\* The block found under a name was cut short.
Torn(l, k) ==
    LET i == GetEnvBlockByName(l, k)
    IN  i # 0 /\ BadChecksum(l[i])

\* The value sys_getenv returns, if it returns: a torn block has none.
sys_getenv(l, k) ==
    LET i == GetEnvBlockByName(l, k)
    IN  IF i = 0 \/ BadChecksum(l[i]) THEN None ELSE l[i].val

\* The non-garbage block after block i, 0 if there is none.
NextLive(l, i) == First({j \in DOMAIN l : j > i /\ ~l[j].garbage})

-----------------------------------------------------------------------------
(* The calls. *)

\* GetNameAndValueFromEnvVar holds the critical section when it finds a wrong
\* checksum, and EnvMakeGarbage enters it again: ticfg_lock_region waits for
\* ticfg_busy, which its own caller has set.  The block is not marked.
EnterAgain ==
    /\ pc' = "spin"
    /\ UNCHANGED <<log, cur, waiting, ram, pos, defragFail, ret>>

\* A set returns: to the restoring loop of sys_defragenv, or to its caller.
Return(l, k, v, status) ==
    /\ log' = l
    /\ cur' = Idle
    /\ IF waiting # None
       THEN /\ pc' = "restore"
            /\ ram' = Tail(ram)
            /\ UNCHANGED ret
       ELSE /\ pc' = "idle"
            /\ ret' = Answer("set", k, v, status)
            /\ UNCHANGED ram
    /\ UNCHANGED <<waiting, pos, defragFail>>

\* Variant: the old block becomes garbage first.
WriteVarNum_marked(l, k, v, old) ==
    /\ log' = Append(IF old = 0 THEN l ELSE EnvMakeGarbage(l, old),
                     [key |-> k, val |-> v, stage |-> "num", garbage |-> FALSE,
                      perm |-> FALSE, at |-> End(l), cells |-> TornCells])
    /\ cur' = [key |-> k, val |-> v, old |-> old]
    /\ pc' = "write"
    /\ UNCHANGED <<waiting, ram, pos, defragFail, ret>>

\* The first byte of a new block is programmed: varNum.
WriteVarNum(l, k, v, old) ==
    /\ log' = Append(l, [key |-> k, val |-> v, stage |-> "num", garbage |-> FALSE,
                         perm |-> FALSE, at |-> End(l), cells |-> TornCells])
    /\ cur' = [key |-> k, val |-> v, old |-> old]
    /\ pc' = "write"
    /\ UNCHANGED <<waiting, ram, pos, defragFail, ret>>

\* sys_defragenv is entered.
Defrag(l, caller) ==
    /\ log' = l
    /\ pc' = "copy"
    /\ waiting' = caller
    /\ ram' = <<>>
    /\ pos' = 0
    /\ defragFail' = FALSE
    /\ UNCHANGED <<cur, ret>>

\* __sys_setenv up to its first write.  A variable that has another value counts
\* as garbage to come.  The restoring loop finds room, as it writes what was in
\* the log before, and does not enter sys_defragenv again.  (It could after both a
\* power failure and a failed erase; the model stops there.)
__sys_setenv(k, v) ==
    LET was == sys_getenv(log, k)
        old == IF was = None THEN 0 ELSE GetEnvBlockByName(log, k)
        room == End(log) + Cells(k, v) <= SpaceCells
        isGarbagePresent == old # 0 \/ \E i \in DOMAIN log : log[i].garbage
    IN  \/ /\ Torn(log, k)
           /\ EnterAgain
        \/ /\ ~Torn(log, k)
           /\ was = v \/ (old # 0 /\ log[old].perm)
           /\ Return(log, k, v, "success")
        \/ /\ ~Torn(log, k)
           /\ was # v /\ ~(old # 0 /\ log[old].perm)
           /\ \/ room /\ WriteVarNum(log, k, v, old)
              \/ ~room /\ isGarbagePresent /\ waiting = None
                 /\ Defrag(log, [key |-> k, val |-> v])
              \/ ~room /\ ~isGarbagePresent /\ Return(log, k, v, "exhausted")

Setenv(k, v) ==
    /\ pc = "idle"
    /\ IF k \in ReadOnly
       THEN /\ ret' = Answer("set", k, v, "success")
            /\ UNCHANGED <<log, pc, cur, waiting, ram, pos, defragFail>>
       ELSE __sys_setenv(k, v)
    /\ UNCHANGED <<faults, crashed>>

\* Only the kernel's build is modelled: without PERMANENT_VARIABLES a permanent
\* variable may be unset.
Unsetenv(k) ==
    LET i == GetEnvBlockByName(log, k)
    IN  /\ pc = "idle"
        /\ \/ /\ k \in ReadOnly \/ i = 0
              /\ ret' = Answer("unset", k, None, "failure")
              /\ UNCHANGED log
           \/ /\ k \notin ReadOnly /\ i # 0
              /\ ret' = Answer("unset", k, None, "success")
              /\ log' = EnvMakeGarbage(log, i)
        /\ UNCHANGED <<pc, cur, waiting, ram, pos, defragFail, faults, crashed>>

Getenv(k) ==
    /\ pc = "idle"
    /\ \/ /\ Torn(log, k)
          /\ EnterAgain
       \/ /\ ~Torn(log, k)
          /\ ret' = Answer("get", k, sys_getenv(log, k), "success")
          /\ UNCHANGED <<log, pc, cur, waiting, ram, pos, defragFail>>
    /\ UNCHANGED <<faults, crashed>>

\* sys_getivar, sys_getienv, get_envstring, sh_printenv read every live block in
\* turn; only one that was cut short changes anything.
ReadByNumber ==
    /\ pc = "idle"
    /\ \E i \in DOMAIN log : ~log[i].garbage /\ BadChecksum(log[i])
    /\ EnterAgain
    /\ UNCHANGED <<faults, crashed>>

\* The loop of ticfg_lock_region: only a power failure ends it.
Spin ==
    /\ pc = "spin"
    /\ UNCHANGED vars

Defragenv ==
    /\ pc = "idle"
    /\ Defrag(log, Explicit)
    /\ UNCHANGED <<faults, crashed>>

-----------------------------------------------------------------------------
(* The steps of a set. *)

Last == Len(log)

\* Variant: the cells after the first one are counted.
WriteHeader_less ==
    /\ pc = "write" /\ log[Last].stage = "num"
    /\ log' = [log EXCEPT ![Last].stage = "head",
                          ![Last].cells = Cells(cur.key, cur.val) - 1]
    /\ UNCHANGED <<pc, cur, waiting, ram, pos, defragFail, ret, faults, crashed>>

\* The rest of the header, then the name, then the value are programmed.
WriteHeader ==
    /\ pc = "write" /\ log[Last].stage = "num"
    /\ log' = [log EXCEPT ![Last].stage = "head",
                          ![Last].cells = Cells(cur.key, cur.val)]
    /\ UNCHANGED <<pc, cur, waiting, ram, pos, defragFail, ret, faults, crashed>>

WriteName ==
    /\ pc = "write" /\ log[Last].stage = "head" /\ cur.key \in Dynamic
    /\ log' = [log EXCEPT ![Last].stage = "name"]
    /\ UNCHANGED <<pc, cur, waiting, ram, pos, defragFail, ret, faults, crashed>>

WriteValue ==
    LET l == [log EXCEPT ![Last].stage = "whole"]
    IN  /\ pc = "write"
        /\ log[Last].stage = IF cur.key \in Dynamic THEN "name" ELSE "head"
        /\ IF cur.old = 0
           THEN Return(l, cur.key, cur.val, "success")
           ELSE /\ log' = l
                /\ pc' = "mark"
                /\ UNCHANGED <<cur, waiting, ram, pos, defragFail, ret>>
        /\ UNCHANGED <<faults, crashed>>

\* Variant: the old block is left as it is.
MarkOld_not ==
    /\ pc = "mark"
    /\ Return(log, cur.key, cur.val, "success")
    /\ UNCHANGED <<faults, crashed>>

MarkOld ==
    /\ pc = "mark"
    /\ Return(EnvMakeGarbage(log, cur.old), cur.key, cur.val, "success")
    /\ UNCHANGED <<faults, crashed>>

-----------------------------------------------------------------------------
(* The steps of sys_defragenv. *)

\* GetEnvBlockByNumber(i) for i = 0, 1, ...
CopyBlock ==
    LET i == NextLive(log, pos)
    IN  /\ pc = "copy" /\ i # 0
        /\ \/ /\ BadChecksum(log[i])
              /\ EnterAgain
           \/ /\ ~BadChecksum(log[i])
              /\ ram' = Append(ram, [key |-> log[i].key, val |-> log[i].val,
                                     at |-> log[i].at])
              /\ pos' = i
              /\ UNCHANGED <<log, pc, cur, waiting, defragFail, ret>>
        /\ UNCHANGED <<faults, crashed>>

\* Variant: the sector is not erased.
Format_not ==
    /\ pc = "copy" /\ NextLive(log, pos) = 0
    /\ pc' = "restore"
    /\ UNCHANGED <<log, cur, waiting, ram, pos, defragFail, ret, faults, crashed>>

\* FormatEnvBlock erases the sector and writes the header.
Format ==
    /\ pc = "copy" /\ NextLive(log, pos) = 0
    /\ log' = <<>>
    /\ pc' = "restore"
    /\ UNCHANGED <<cur, waiting, ram, pos, defragFail, ret, faults, crashed>>

\* vmalloc fails while copying, or FormatEnvBlock fails: what was copied is
\* restored to a log that was not erased.
DefragFails ==
    /\ pc = "copy" /\ faults < MaxFaults
    /\ defragFail' = TRUE
    /\ faults' = faults + 1
    /\ pc' = "restore"
    /\ UNCHANGED <<log, cur, waiting, ram, pos, ret, crashed>>

RestoreBlock ==
    /\ pc = "restore" /\ ram # <<>>
    /\ __sys_setenv(Head(ram).key, Head(ram).val)
    /\ UNCHANGED <<faults, crashed>>

\* sys_defragenv returns, to its caller or to a set that starts again.
Defragged ==
    LET status == IF defragFail THEN "exhausted" ELSE "success"
    IN  /\ pc = "restore" /\ ram = <<>>
        /\ \/ /\ waiting = Explicit
              /\ ret' = Answer("defrag", None, None, status)
              /\ pc' = "idle"
              /\ waiting' = None
              /\ UNCHANGED cur
           \/ /\ waiting # Explicit /\ defragFail
              /\ ret' = Answer("set", waiting.key, waiting.val, status)
              /\ pc' = "idle"
              /\ waiting' = None
              /\ UNCHANGED cur
           \/ /\ waiting # Explicit /\ ~defragFail
              /\ pc' = "retry"
              /\ cur' = [key |-> waiting.key, val |-> waiting.val, old |-> 0]
              /\ waiting' = None
              /\ UNCHANGED ret
        /\ UNCHANGED <<log, ram, pos, defragFail, faults, crashed>>

Retry ==
    /\ pc = "retry"
    /\ __sys_setenv(cur.key, cur.val)
    /\ UNCHANGED <<faults, crashed>>

-----------------------------------------------------------------------------
(* Power and the boot loader. *)

PowerFailure ==
    /\ faults < MaxFaults
    /\ faults' = faults + 1
    /\ crashed' = TRUE
    /\ pc' = "boot"
    /\ cur' = Idle
    /\ waiting' = None
    /\ ram' = <<>>
    /\ pos' = 0
    /\ defragFail' = FALSE
    /\ ret' = None
    /\ UNCHANGED log

\* The boot loader is this file compiled with _STANDALONE, without a lock.  It
\* formats a sector without header, which is empty, and makes a torn block it
\* reads garbage; which variables it reads is not known here.
LoaderReads ==
    /\ pc = "boot"
    /\ \E i \in DOMAIN log :
          /\ ~log[i].garbage /\ BadChecksum(log[i])
          /\ log' = EnvMakeGarbage(log, i)
    /\ UNCHANGED <<pc, cur, waiting, ram, pos, defragFail, ret, faults, crashed>>

Booted ==
    /\ pc = "boot"
    /\ pc' = "idle"
    /\ UNCHANGED <<log, cur, waiting, ram, pos, defragFail, ret, faults, crashed>>

\* The boot loader leaves an environment with the permanent variables.
Init ==
    /\ \/ log = <<>>
       \/ \E k \in Permanent, v \in Values :
             /\ Cells(k, v) <= SpaceCells
             /\ log = <<[key |-> k, val |-> v, stage |-> "whole", garbage |-> FALSE,
                         perm |-> TRUE, at |-> 0, cells |-> Cells(k, v)]>>
    /\ pc = "idle" /\ cur = Idle /\ waiting = None /\ ram = <<>> /\ pos = 0
    /\ defragFail = FALSE /\ ret = None /\ faults = 0 /\ crashed = FALSE

Step ==
    \/ WriteHeader \/ WriteName \/ WriteValue \/ MarkOld
    \/ CopyBlock \/ Format \/ RestoreBlock \/ Defragged \/ Retry \/ Booted

Next ==
    \/ Step
    \/ \E k \in Keys : Getenv(k) \/ Unsetenv(k)
    \/ \E k \in Keys, v \in Values : Setenv(k, v)
    \/ Defragenv \/ ReadByNumber \/ Spin \/ DefragFails \/ PowerFailure \/ LoaderReads

Spec == Init /\ [][Next]_vars
FairSpec == Spec /\ WF_vars(Step)

-----------------------------------------------------------------------------
(* Properties. *)

Block == [key : Keys, val : Values, stage : Stages, garbage : BOOLEAN,
          perm : BOOLEAN, at : Nat, cells : Nat \ {0}]

Copies == [key : Keys, val : Values, at : Nat]

\* The sorts of the variables, for any history of power failures.
TypeOK ==
    /\ log \in Seq(Block)
    /\ pc \in {"idle", "write", "mark", "copy", "restore", "retry", "spin", "boot"}
    /\ cur \in [key : Keys \union {None}, val : Values \union {None}, old : Nat]
    /\ waiting \in [key : Keys, val : Values] \union {Explicit, None}
    /\ ram \in Seq(Copies)
    /\ pos \in Nat
    /\ defragFail \in BOOLEAN
    /\ faults \in 0 .. MaxFaults
    /\ crashed \in BOOLEAN

\* What a variable is to its callers: while the log is rewritten, the copy in
\* RAM stands for what is not yet in it.
EnvOf ==
    [k \in Keys |->
        LET R == {i \in DOMAIN ram : ram[i].key = k}
        IN  IF waiting # None /\ pc # "copy" /\ R # {}
            THEN ram[CHOOSE i \in R : TRUE].val
            ELSE sys_getenv(log, k)]

Store == INSTANCE EnvStore WITH
    Protected <- ReadOnly \union Permanent,
    env <- EnvOf,
    compacting <- (waiting # None),
    promised <- ~crashed

\* The log implements the map of EnvStore: every get, set and unset takes effect
\* at one instant, whatever blocks, garbage and compactions lie between, and a
\* power failure changes nothing unless it meets a compaction.
ImplementsStore == Store!Spec

\* The blocks lie one after the other inside the sector, so that the walk over
\* the log finds each of them; only a block that a power failure cut short may
\* claim cells beyond the end.
BlocksContiguous ==
    /\ \A i \in DOMAIN log :
          log[i].at = IF i = 1 THEN 0 ELSE log[i - 1].at + log[i - 1].cells
    /\ \A i \in DOMAIN log : log[i].stage # "num" => log[i].at + log[i].cells <= SpaceCells

\* Without a power failure no variable has two blocks that count, except while
\* a set is between its last write and the mark on the old block.
OneLiveBlock ==
    ~crashed /\ pc # "write" /\ pc # "mark" =>
        \A i, j \in DOMAIN log :
            log[i].key = log[j].key /\ ~log[i].garbage /\ ~log[j].garbage => i = j

\* The blocks of a variable that count, apart from the first one.
Surplus ==
    {i \in DOMAIN log : /\ ~log[i].garbage
                        /\ \E j \in 1 .. i - 1 : ~log[j].garbage /\ log[j].key = log[i].key}

\* A power failure leaves at most one block too many that counts, and what is
\* done afterwards does not add to it: a set that misses a surplus block still
\* marks another one of its variable, and one that meets a torn block writes
\* nothing.
DamageBounded ==
    Cardinality(Surplus) <= faults + (IF pc \in {"write", "mark"} THEN 1 ELSE 0)

LiveCells ==
    LET cells[i \in 0 .. Len(log)] ==
            IF i = 0 THEN 0
            ELSE cells[i - 1] + (IF log[i].garbage THEN 0 ELSE log[i].cells)
    IN  cells[Len(log)]

\* A set that has to compact the log returns, or power fails, if its block fits
\* beside the blocks in use and no power failure has left a torn one among them
\* (which no call but sys_unsetenv survives): also with what power failures left
\* whole, a variable twice, and if the compaction itself fails.
SetReturnsIfRoom ==
    (/\ pc = "copy" /\ pos = 0
     /\ \A i \in DOMAIN log : log[i].garbage \/ ~BadChecksum(log[i])
     /\ waiting # Explicit => LiveCells + Cells(waiting.key, waiting.val) <= SpaceCells)
    ~> (pc = "idle")

\* Every call returns, with SBL_ERESCRUNCH if the block is exhausted.
CallsReturn == (pc # "idle") ~> (pc = "idle")

-----------------------------------------------------------------------------
(* The inductive invariants: Shape and DamageInv of every state, Intact of    *)
(* those before the first power failure.                                      *)

Writing == pc \in {"write", "mark"}

\* What the place in the program says of the other variables.
Placed ==
    /\ Writing => /\ log # <<>> /\ cur.key \in Keys /\ cur.val \in Values
                  /\ cur.old \in 0 .. Len(log) - 1
                  /\ waiting # None => ram # <<>>
    /\ pc = "mark" => cur.old # 0
    /\ pc = "write" => /\ log[Len(log)].key = cur.key /\ log[Len(log)].val = cur.val
                       /\ log[Len(log)].stage # "whole"
                       /\ log[Len(log)].at + Cells(cur.key, cur.val) <= SpaceCells
    /\ pc = "retry" => cur.key \in Keys /\ cur.val \in Values
    /\ pc \in {"idle", "retry", "boot"} => waiting = None
    /\ pc \in {"copy", "restore"} => waiting # None

BlocksOrdered ==
    \A i, j \in DOMAIN log : i < j => log[i].at + log[i].cells <= log[j].at

BlocksSized ==
    \A i \in DOMAIN log : log[i].stage # "num" => log[i].cells = Cells(log[i].key, log[i].val)

PermanentMarked == \A i \in DOMAIN log : log[i].perm => log[i].key \in Permanent

Shape ==
    /\ TypeOK /\ Placed /\ BlocksContiguous /\ BlocksOrdered /\ BlocksSized
    /\ PermanentMarked

\* Blocks are whole but the one that is being written.
BlocksWhole ==
    \A i \in DOMAIN log : log[i].stage = "whole" \/ (pc = "write" /\ i = Len(log))

\* A variable has one live block, or the old and the new one.
LiveBlocks ==
    /\ \A i, j \in DOMAIN log :
          i < j /\ ~log[i].garbage /\ ~log[j].garbage /\ log[i].key = log[j].key
          => Writing /\ i = cur.old /\ j = Len(log)
    /\ Writing => /\ ~log[Len(log)].garbage /\ log[Len(log)].key = cur.key
                  /\ log[Len(log)].val = cur.val
                  /\ cur.old # 0 => /\ ~log[cur.old].garbage
                                    /\ log[cur.old].key = cur.key

\* The copies in RAM are of different variables, in the order of their blocks,
\* and would fit where these were.
CopiesOrdered ==
    /\ \A x \in DOMAIN ram : ram[x].at + Cells(ram[x].key, ram[x].val) <= SpaceCells
    /\ \A x, y \in DOMAIN ram :
          x < y => /\ ram[x].key # ram[y].key
                   /\ ram[x].at + Cells(ram[x].key, ram[x].val) <= ram[y].at

CopyOf(x, i) ==
    ~log[i].garbage /\ log[i].key = ram[x].key /\ log[i].val = ram[x].val

\* While the log is copied: the live blocks up to pos are in RAM.
Copying ==
    pc = "copy" =>
        /\ ~defragFail
        /\ \A x \in DOMAIN ram : \E i \in DOMAIN log :
              i <= pos /\ CopyOf(x, i) /\ ram[x].at = log[i].at
        /\ \A i \in DOMAIN log :
              i <= pos /\ ~log[i].garbage => \E x \in DOMAIN ram : CopyOf(x, i)

\* After a failure the log still has what the copies hold.
RestoringFailed ==
    waiting # None /\ defragFail =>
        pc = "restore" /\ \A x \in DOMAIN ram : \E i \in DOMAIN log : CopyOf(x, i)

\* In the erased log the copies are missing, and it has room for them.
RestoringErased ==
    waiting # None /\ pc # "copy" /\ ~defragFail =>
        /\ pc \in {"restore", "write"}
        /\ \A x \in DOMAIN ram, i \in DOMAIN log :
              ~log[i].garbage /\ log[i].key = ram[x].key
              => pc = "write" /\ x = 1 /\ i = Len(log)
        /\ pc = "write" => /\ cur.old = 0
                           /\ cur.key = ram[1].key /\ cur.val = ram[1].val
                           /\ log[Len(log)].at <= ram[1].at
        /\ pc = "restore" /\ ram # <<>> => End(log) <= ram[1].at

Intact ==
    ~crashed => /\ pc # "boot"
                /\ BlocksWhole /\ LiveBlocks
                /\ waiting # None => CopiesOrdered
                /\ Copying /\ RestoringFailed /\ RestoringErased

\* The blocks that count, apart from those in W and from the one that a running
\* set has begun.
Rest(W) ==
    {i \in DOMAIN log \ W : ~log[i].garbage /\ ~(Writing /\ i = Len(log))}

\* W excuses what the power failures left behind: the other blocks are found
\* under their names, each is the only one of its variable, and a set that has
\* no old block to mark writes the only one.
Excused(W) ==
    /\ \A i \in Rest(W) : Matches(log[i].key, log[i])
    /\ \A i, j \in Rest(W) : log[i].key = log[j].key => i = j
    /\ Writing => /\ ~log[Len(log)].garbage /\ log[Len(log)].key = cur.key
                  /\ pc = "mark" => log[Len(log)].stage = "whole"
                  /\ cur.old # 0 => /\ ~log[cur.old].garbage
                                    /\ log[cur.old].key = cur.key
                  /\ cur.old = 0 => \A i \in Rest(W) : log[i].key # cur.key

\* As many blocks are excused as there were faults: DamageBounded alone is not
\* inductive, as it does not see the torn blocks that a set will not find.
DamageInv == \E W \in SUBSET DOMAIN log : Cardinality(W) <= faults /\ Excused(W)
=============================================================================
