---------------------------- MODULE UdhcpcProofs ----------------------------
(***************************************************************************)
(* Proofs about the DHCP client Udhcpc.                                    *)
(*                                                                         *)
(* TypeOK is inductive by itself, whatever signals arrive, and with it     *)
(* ListenInv, by which the socket listens where the state says.            *)
(*                                                                         *)
(* That an address is off the interface in time is proved for a client     *)
(* that no SIGUSR1 or SIGUSR2 disturbs (the counterexamples with them are  *)
(* runs of their own): it needs that select waits for the deadline in      *)
(* force, that this deadline is t1 or t2 after the start of the lease, and *)
(* that the clock has not passed it when the timeout is handled, so that   *)
(* "timeout = now + (t2 - t1)" is t2 after the start.                      *)
(***************************************************************************)
EXTENDS Udhcpc, TLAPS

\* A difference of unsigned longs is one.
LEMMA MinusType == \A a, b \in Nat : Minus(a, b) \in Nat
  BY ClientAssumption DEF Minus

\* It is the difference when it is not negative.
LEMMA MinusExact ==
    ASSUME NEW a \in Nat, NEW b \in Nat, b <= a, a < Word
    PROVE  Minus(a, b) = a - b
  BY ClientAssumption DEF Minus

\* t2 is an unsigned long.
LEMMA SevenEighthsType == \A l \in Nat : SevenEighths(l) \in Nat
  BY ClientAssumption DEF SevenEighths

\* Without overflow t2 lies between t1 and the lease.
LEMMA SevenEighthsExact ==
    ASSUME NEW l \in Nat, 7 * l < Word
    PROVE  l \div 2 <= SevenEighths(l) /\ SevenEighths(l) <= l
<1>1. (l * 7) % Word = l * 7
  BY ClientAssumption
<1> QED BY <1>1 DEF SevenEighths

-----------------------------------------------------------------------------
\* What the constants are, one by one.
LEMMA Constants ==
    /\ RequestedIp \in Nat /\ BackupIp \in Nat /\ NoLeaseTime \in Nat /\ Far \in Nat
    /\ Wait \in Nat /\ LastWait \in Nat /\ Pause \in Nat
    /\ Xids \subseteq Nat /\ Word \in Nat \ {0}
    /\ MaxScript \in Nat /\ NakSleep \in Nat
  BY ClientAssumption

\* The fields of a packet the client acts on.
LEMMA PacketFields ==
    ASSUME NEW p \in Packets
    PROVE  p.yiaddr \in Nat \ {0} /\ p.sid \in Nat /\ LeaseOf(p) \in Nat
  BY ClientAssumption DEF PacketType, LeaseOf, NoOption

\* What is sent is a message.
LEMMA SendType ==
    ASSUME NEW type \in {"DISCOVER", "SELECT", "RENEW", "RELEASE"}, NEW x \in Nat,
           NEW server \in Nat, NEW ip \in Nat, Send(type, x, server, ip)
    PROVE  sent' \in Messages \cup {NoMessage}
  BY DEF Send, Messages

\* Every step of the loop and of its handlers keeps the types.
LEMMA TypeStep == TypeOK /\ [Next]_vars => TypeOK'
<1> SUFFICES ASSUME TypeOK, [Next]_vars PROVE TypeOK'
  OBVIOUS
<1> USE DEF SendNothing, change_mode, hist, net, times, Exit, LoopPcs, ScriptPcs, States,
            Windows, ModePcs
<1>1. CASE Loop
  BY <1>1 DEF Loop, ComputeTv, OpenSocket, EnterSelect, TimedOut, TypeOK
<1>2. CASE InitTimeout
  <2>1. PICK x \in Xids : xid' = (IF packet_num = 0 THEN x ELSE xid)
                           /\ Send("DISCOVER", xid', 0, requested_ip)
    BY <1>2 DEF InitTimeout
  <2>2. xid' \in Nat /\ requested_ip \in Nat
    BY <2>1, Constants DEF TypeOK
  <2>3. sent' \in Messages \cup {NoMessage}
    BY <2>1, <2>2, SendType
  <2>4. timeout' \in Nat /\ packet_num' \in 0..3
    BY <1>2, Constants DEF InitTimeout, NextWait, TriesLeft, TypeOK
  <2> QED BY <1>2, <2>2, <2>3, <2>4 DEF InitTimeout, TypeOK
<1>3. CASE InitRoundOver
  BY <1>3, Constants DEF InitRoundOver, TypeOK
<1>4. CASE RequestTimeout
  <2>1. sent' \in Messages \cup {NoMessage}
    BY <1>4, SendType DEF RequestTimeout, TypeOK
  <2>2. timeout' \in Nat /\ packet_num' \in 0..3
    BY <1>4, Constants DEF RequestTimeout, NextWait, TriesLeft, TypeOK
  <2> QED BY <1>4, <2>1, <2>2 DEF RequestTimeout, TypeOK
<1>5. CASE RenewTimeout
  <2>1. sent' \in Messages \cup {NoMessage}
    BY <1>5, SendType DEF RenewTimeout, TypeOK
  <2>2. Minus(t2, t1) \in Nat
    BY MinusType DEF TypeOK
  <2>3. timeout' \in Nat /\ t1' \in Nat
    BY <1>5, <2>2 DEF RenewTimeout, TypeOK
  <2> QED BY <1>5, <2>1, <2>3 DEF RenewTimeout, TypeOK
<1>6. CASE RebindTimeout
  <2>1. sent' \in Messages \cup {NoMessage}
    BY <1>6, SendType DEF RebindTimeout, TypeOK
  <2>2. Minus(lease, t2) \in Nat
    BY MinusType DEF TypeOK
  <2>3. timeout' \in Nat /\ t2' \in Nat
    BY <1>6, <2>2 DEF RebindTimeout, TypeOK
  <2> QED BY <1>6, <2>1, <2>3 DEF RebindTimeout, TypeOK
<1>7. CASE ReleasedTimeout
  BY <1>7, Constants DEF ReleasedTimeout, TypeOK
<1>8. ASSUME NEW p \in Packets, ReceiveOffer(p) PROVE TypeOK'
  BY <1>8, PacketFields DEF ReceiveOffer, TypeOK
<1>9. ASSUME NEW p \in Packets, ReceiveAck(p) PROVE TypeOK'
  <2>1. lease' \in Nat /\ requested_ip' \in Nat
    BY <1>9, PacketFields DEF ReceiveAck
  <2>2. t1' \in Nat /\ t2' \in Nat
    BY <1>9, <2>1, SevenEighthsType DEF ReceiveAck
  <2> QED BY <1>9, <2>1, <2>2 DEF ReceiveAck, TypeOK
<1>10. ASSUME NEW p \in Packets, ReceiveNak(p) \/ Ignore(p) PROVE TypeOK'
  BY <1>10 DEF ReceiveNak, Ignore, TypeOK
<1>11. CASE ReadError \/ BoundTimeout \/ OfferTaken
  BY <1>11 DEF ReadError, BoundTimeout, OfferTaken, TypeOK
<1>18. CASE ChangeMode
  BY <1>18 DEF ChangeMode, ModeOf, TypeOK
<1>12. CASE Return
  <2>1. CASE Started
    BY <2>1 DEF Started, TypeOK
  <2>2. CASE ScriptConfigures
    BY <2>2 DEF ScriptConfigures, TypeOK
  <2>3. CASE AckReturns
    BY <2>3 DEF AckReturns, TypeOK
  <2>4. CASE SleepOver
    BY <2>4 DEF SleepOver, TypeOK
  <2>5. CASE LostReturns
    BY <2>5 DEF LostReturns, TypeOK
  <2>6. CASE NakReturns
    BY <2>6 DEF NakReturns, NakOver, TypeOK
  <2>7. CASE DeconfigReturns
    BY <2>7 DEF DeconfigReturns, NakOver, TypeOK
  <2> QED BY <1>12, <2>1, <2>2, <2>3, <2>4, <2>5, <2>6, <2>7 DEF Return
<1>19. Interrupted => pc' \in LoopPcs \cup ScriptPcs \cup Windows \cup {"sleep", "exit"}
  BY DEF Interrupted, TypeOK
<1>20. ReleaseLease => sent' \in Messages \cup {NoMessage} /\ conf' \in Nat
  <2>1. SendNothing => sent' \in Messages \cup {NoMessage}
    OBVIOUS
  <2>2. \A x \in Xids : Send("RELEASE", x, server_addr, requested_ip)
                           => sent' \in Messages \cup {NoMessage}
    BY SendType, Constants DEF TypeOK
  <2> QED BY <2>1, <2>2 DEF ReleaseLease, TypeOK
<1>21. /\ RenewState \in States /\ RenewMode \in {"none", "kernel", "raw"}
       /\ Strikes => struck' \in BOOLEAN
  BY DEF RenewState, RenewMode, Strikes
<1>13. CASE renew_requested
  <2>1. pc' \in LoopPcs \cup ScriptPcs \cup Windows \cup {"sleep", "exit"}
    BY <1>13, <1>19 DEF renew_requested
  <2>2. /\ state' \in States /\ packet_num' \in 0..3
        /\ listen_mode' \in {"none", "kernel", "raw"} /\ fd' \in {"open", "closed"}
    BY <1>13, <1>21 DEF renew_requested, TypeOK
  <2>3. released' \in BOOLEAN /\ struck' \in BOOLEAN
    BY <1>13, <1>21, Zenon DEF renew_requested
  <2> QED BY <1>13, <2>1, <2>2, <2>3 DEF renew_requested, TypeOK
<1>14. CASE release_requested
  <2>1. sent' \in Messages \cup {NoMessage}
    BY <1>14, <1>20 DEF release_requested
  <2>2. pc' \in LoopPcs \cup ScriptPcs \cup Windows \cup {"sleep", "exit"}
    BY <1>14, <1>19 DEF release_requested
  <2>3. conf' \in Nat
    BY <1>14, <1>20 DEF release_requested
  <2>4. released' \in BOOLEAN /\ struck' \in BOOLEAN
    BY <1>14, <1>21, Zenon DEF release_requested
  <2> QED BY <1>14, <2>1, <2>2, <2>3, <2>4, Constants DEF release_requested, TypeOK
<1>22. CASE RenewInterrupted \/ ReleaseInterrupted
  <2>1. ReleaseLease /\ Interrupted
    BY <1>22 DEF RenewInterrupted, ReleaseInterrupted
  <2>2. released' \in BOOLEAN /\ struck' \in BOOLEAN
    BY <1>22, Zenon DEF RenewInterrupted, ReleaseInterrupted
  <2>3. listen_mode' \in {"none", "kernel", "raw"} /\ fd' = "closed"
    BY <1>21, <1>22 DEF RenewInterrupted, ReleaseInterrupted
  <2>4. state' \in States /\ timeout' \in Nat /\ packet_num' = 0 /\ signals' \in Nat
    BY <1>21, <1>22, Constants DEF RenewInterrupted, ReleaseInterrupted, TypeOK
  <2>5. UNCHANGED <<now, failurecnt, net, times, sel, spent>>
    BY <1>22 DEF RenewInterrupted, ReleaseInterrupted
  <2> QED BY <1>19, <1>20, <2>1, <2>2, <2>3, <2>4, <2>5 DEF TypeOK
<1>15. CASE terminate
  BY <1>15 DEF terminate, TypeOK
<1>16. CASE Tick
  BY <1>16 DEF Tick, TypeOK
<1>17. CASE UNCHANGED vars
  BY <1>17 DEF vars, TypeOK
<1> QED BY <1>1, <1>2, <1>3, <1>4, <1>5, <1>6, <1>7, <1>8, <1>9, <1>10, <1>11, <1>12,
           <1>13, <1>14, <1>15, <1>16, <1>17, <1>18, <1>22
        DEF Next, Timeout, Receive, Signal, Finish

\* The client starts with well-typed variables.
LEMMA TypeInit == Init => TypeOK
<1> SUFFICES ASSUME Init PROVE TypeOK
  OBVIOUS
<1>1. released \in BOOLEAN /\ struck \in BOOLEAN
  BY Zenon DEF Init
<1> QED BY <1>1, Constants DEF Init, TypeOK, States, LoopPcs, ScriptPcs

\* Every reachable state of the client, whatever arrives, has the types of
\* the C program, and no try sends more than three packets.
THEOREM TypeCorrect == Spec => []TypeOK
  BY TypeInit, TypeStep, PTL DEF Spec

-----------------------------------------------------------------------------
(***************************************************************************)
(* The socket of a client that any signal may disturb                      *)
(***************************************************************************)

\* What a signal leaves: the mode of the state, or a client that is released;
\* the place in the loop, or its beginning.
LEMMA SignalMoves ==
    ASSUME Interrupted
    PROVE  pc' = (IF pc \in {"select", "sleep"} THEN "top" ELSE pc)
  BY DEF Interrupted

\* Every step keeps what holds after any signals.
LEMMA ModeStep == TypeOK /\ ModeInv /\ [Next]_vars => ModeInv'
<1> SUFFICES ASSUME TypeOK, ModeInv, [Next]_vars PROVE ModeInv'
  OBVIOUS
<1> USE DEF SendNothing, change_mode, Exit, LoopPcs, States, ModePcs
<1>1. CASE Loop
  BY <1>1 DEF Loop, ComputeTv, OpenSocket, EnterSelect, TimedOut, TypeOK, ModeInv
<1>2. CASE InitTimeout \/ InitRoundOver \/ ReleasedTimeout
  BY <1>2 DEF InitTimeout, InitRoundOver, ReleasedTimeout, ModeInv
<1>3. CASE RequestTimeout \/ BoundTimeout
  BY <1>3 DEF RequestTimeout, BoundTimeout, ModeInv
<1>4. CASE RenewTimeout \/ RebindTimeout
  BY <1>4 DEF RenewTimeout, RebindTimeout, ModeInv
<1>5. CASE Receive
  BY <1>5 DEF Receive, ReceiveOffer, ReceiveAck, ReceiveNak, Ignore, Heard, ModeInv
<1>6. CASE ReadError
  BY <1>6 DEF ReadError, Heard, ModeInv
<1>7. CASE OfferTaken
  BY <1>7 DEF OfferTaken, ModeInv
<1>8. CASE ChangeMode
  BY <1>8 DEF ChangeMode, ModeOf, ModeInv
<1>9. CASE Return
  BY <1>9 DEF Return, Started, LostReturns, ScriptConfigures, AckReturns, NakReturns, NakOver,
              DeconfigReturns, SleepOver, ModeInv
<1>10. CASE renew_requested
  <2>1. pc' = (IF pc \in {"select", "sleep"} THEN "top" ELSE pc)
    BY <1>10, SignalMoves DEF renew_requested
  <2>2. CASE UNCHANGED <<listen_mode, state>>
    BY <2>1, <2>2 DEF ModeInv
  <2>3. CASE state \in Holding /\ listen_mode' = "kernel" /\ state' = "RENEW_REQUESTED"
    BY <2>1, <2>3 DEF ModeInv, Holding
  <2>4. CASE state = "RELEASED" /\ listen_mode' = "raw" /\ state' = "INIT_SELECTING"
    BY <2>1, <2>4 DEF ModeInv
  <2> QED BY <1>10, <2>2, <2>3, <2>4 DEF renew_requested, RenewMode, RenewState, Holding
<1>11. CASE release_requested \/ ReleaseInterrupted
  <2>1. pc' = (IF pc \in {"select", "sleep"} THEN "top" ELSE pc) /\ state' = "RELEASED"
    BY <1>11, SignalMoves DEF release_requested, ReleaseInterrupted
  <2> QED BY <2>1 DEF ModeInv
<1>12. CASE RenewInterrupted
  <2>1. /\ pc' = (IF pc \in {"select", "sleep"} THEN "top" ELSE pc)
        /\ \/ state \in Holding /\ state' = "RENEW_REQUESTED"
           \/ state = "RELEASED" /\ state' = "INIT_SELECTING"
    BY <1>12, SignalMoves DEF RenewInterrupted, RenewState, Holding
  <2> QED BY <2>1 DEF ModeInv, Holding
<1>13. CASE terminate \/ Tick
  BY <1>13 DEF terminate, Tick, ModeInv
<1>14. CASE UNCHANGED vars
  BY <1>14 DEF vars, ModeInv
<1> QED BY <1>1, <1>2, <1>3, <1>4, <1>5, <1>6, <1>7, <1>8, <1>9, <1>10, <1>11, <1>12, <1>13,
           <1>14 DEF Next, Timeout, Signal, Finish

\* Without a signal between two statements of a handler, every step leaves the
\* socket in the mode of the state.
LEMMA UnstruckStep == ListenInv /\ [Next]_vars => UnstruckInv'
<1> SUFFICES ASSUME TypeOK, ModeInv, UnstruckInv, [Next]_vars, ~struck' PROVE UnstruckInv'
  BY DEF ListenInv, UnstruckInv
<1> USE DEF SendNothing, change_mode, Exit, LoopPcs, States, ModePcs, hist
<1>1. CASE Loop
  BY <1>1 DEF Loop, ComputeTv, OpenSocket, EnterSelect, TimedOut, TypeOK, UnstruckInv
<1>2. CASE InitTimeout \/ InitRoundOver \/ ReleasedTimeout
  BY <1>2 DEF InitTimeout, InitRoundOver, ReleasedTimeout, UnstruckInv
<1>3. CASE RequestTimeout \/ BoundTimeout
  BY <1>3 DEF RequestTimeout, BoundTimeout, UnstruckInv
<1>4. CASE RenewTimeout \/ RebindTimeout
  BY <1>4 DEF RenewTimeout, RebindTimeout, ModeInv, UnstruckInv
<1>5. CASE Receive
  BY <1>5 DEF Receive, ReceiveOffer, ReceiveAck, ReceiveNak, Ignore, Heard, UnstruckInv
<1>6. CASE ReadError
  BY <1>6 DEF ReadError, Heard, UnstruckInv
<1>7. CASE OfferTaken
  BY <1>7 DEF OfferTaken, UnstruckInv
<1>8. CASE ChangeMode
  BY <1>8 DEF ChangeMode, ModeOf, ModeInv, UnstruckInv
<1>9. CASE Return
  BY <1>9 DEF Return, Started, LostReturns, ScriptConfigures, AckReturns, NakReturns, NakOver,
              DeconfigReturns, SleepOver, ModeInv, UnstruckInv
<1>10. CASE renew_requested
  <2>1. /\ pc' = (IF pc \in {"select", "sleep"} THEN "top" ELSE pc)
        /\ ~struck /\ pc \notin Windows
    BY <1>10, SignalMoves DEF renew_requested, Strikes
  <2>2. CASE UNCHANGED <<listen_mode, state>>
    BY <2>1, <2>2 DEF UnstruckInv, Windows
  <2>3. CASE listen_mode' = "kernel" /\ state' = "RENEW_REQUESTED"
    BY <2>1, <2>3 DEF UnstruckInv, Windows
  <2>4. CASE listen_mode' = "raw" /\ state' = "INIT_SELECTING"
    BY <2>1, <2>4 DEF UnstruckInv, Windows
  <2> QED BY <1>10, <2>2, <2>3, <2>4 DEF renew_requested, RenewMode, RenewState
<1>11. CASE release_requested
  <2>1. /\ pc' = (IF pc \in {"select", "sleep"} THEN "top" ELSE pc)
        /\ pc \notin Windows /\ state' = "RELEASED"
    BY <1>11, SignalMoves DEF release_requested, Strikes
  <2> QED BY <2>1 DEF UnstruckInv, Windows
<1>12. ~RenewInterrupted /\ ~ReleaseInterrupted
  BY DEF RenewInterrupted, ReleaseInterrupted
<1>13. CASE terminate \/ Tick
  BY <1>13 DEF terminate, Tick, UnstruckInv
<1>14. CASE UNCHANGED vars
  BY <1>14 DEF vars, UnstruckInv
<1> QED BY <1>1, <1>2, <1>3, <1>4, <1>5, <1>6, <1>7, <1>8, <1>9, <1>10, <1>11, <1>12, <1>13,
           <1>14 DEF Next, Timeout, Signal, Finish

\* For every sequence of SIGUSR1, SIGUSR2 and packets, wherever they meet the
\* client: a bound client in select does not listen and one that renews does;
\* and as long as no signal has come between two statements of a handler, every
\* client in select listens where its answer arrives.
THEOREM ListensWhereAnswersArrive == Spec => []ListenMatchesState
<1>1. Init => ListenInv
  BY TypeInit DEF Init, ListenInv, ModeInv, UnstruckInv, LoopPcs, States
<1>2. ListenInv => ListenMatchesState
  BY DEF ListenInv, ModeInv, UnstruckInv, ListenMatchesState, LoopPcs
<1>3. ListenInv /\ [Next]_vars => ListenInv'
  BY TypeStep, ModeStep, UnstruckStep DEF ListenInv
<1> QED BY <1>1, <1>2, <1>3, PTL DEF Spec

-----------------------------------------------------------------------------
(***************************************************************************)
(* The lease of a client that no signal disturbs                           *)
(***************************************************************************)

\* A timeout is handled exactly at the deadline of the state.
LEMMA OnTime ==
    ASSUME LeaseInv, pc \in Holding
    PROVE  /\ TimersOrdered /\ now = timeout /\ state = pc
           /\ state \in {"BOUND", "RENEWING"} => now = start + t1
           /\ state = "REBINDING" => now = start + t2
<1>1. /\ state = pc /\ pc \in Running /\ now \in Nat /\ timeout \in Nat
  BY DEF LeaseInv, HeldOnly, Holding, States, Running, TypeOK
<1> QED BY <1>1 DEF LeaseInv, TimersRun, Holding

\* The first renewals: the deadline moves from t1 to a later t1, or to t2.
LEMMA LeaseRenew ==
    ASSUME LeaseInv, RenewTimeout
    PROVE  SelectCurrent' /\ HeldOnly' /\ TimersRun'
<1> DEFINE gap == Minus(t2, t1)
<1>1. pc = "RENEWING" /\ pc \in Holding
  BY DEF RenewTimeout, Holding
<1>2. TimersOrdered /\ now = timeout /\ now = start + t1 /\ state = "RENEWING"
  BY <1>1, OnTime
<1>3. t1 \in Nat /\ t2 \in Nat /\ lease \in Nat /\ start \in Nat /\ now \in Nat
  BY DEF LeaseInv, TypeOK
<1>4. gap = t2 - t1 /\ gap \in Nat
  BY <1>2, <1>3, MinusExact, Constants DEF TimersOrdered
<1>5. /\ pc' = "top" /\ UNCHANGED <<now, t2, start, lease, conf>>
      /\ \/ state' = "REBINDING" /\ timeout' = now + gap /\ t1' = t1
         \/ state' = "RENEWING" /\ t1' = gap \div 2 + t1 /\ timeout' = t1' + start
  BY <1>2 DEF RenewTimeout
<1> HIDE DEF gap
<1>6. SelectCurrent'
  BY <1>5 DEF SelectCurrent
<1>7. HeldOnly'
  BY <1>5 DEF HeldOnly, Holding, States
<1>8. TimersRun'
  <2>1. CASE state' = "REBINDING" /\ timeout' = now + gap /\ t1' = t1
    BY <1>2, <1>3, <1>4, <1>5, <2>1 DEF TimersRun, TimersOrdered, LoopPcs, Holding
  <2>2. CASE state' = "RENEWING" /\ t1' = gap \div 2 + t1 /\ timeout' = t1' + start
    <3>1. gap \div 2 \in Nat /\ gap \div 2 <= gap
      BY <1>4
    <3>2. t1' <= t2 /\ now <= timeout' /\ timeout' = start + t1'
      BY <1>2, <1>3, <1>4, <2>2, <3>1
    <3> QED BY <1>2, <1>5, <2>2, <3>2 DEF TimersRun, TimersOrdered, LoopPcs, Holding
  <2> QED BY <1>5, <2>1, <2>2
<1> QED BY <1>6, <1>7, <1>8

\* Rebinding: the deadline moves to a later t2, or the lease is given up.
LEMMA LeaseRebind ==
    ASSUME LeaseInv, RebindTimeout
    PROVE  SelectCurrent' /\ HeldOnly' /\ TimersRun'
<1> DEFINE gap == Minus(lease, t2)
<1>1. pc = "REBINDING" /\ pc \in Holding
  BY DEF RebindTimeout, Holding
<1>2. TimersOrdered /\ now = timeout /\ now = start + t2 /\ state = "REBINDING"
  BY <1>1, OnTime
<1>3. t1 \in Nat /\ t2 \in Nat /\ lease \in Nat /\ start \in Nat /\ now \in Nat
  BY DEF LeaseInv, TypeOK
<1>4. gap = lease - t2 /\ gap \in Nat
  BY <1>2, <1>3, MinusExact, Constants DEF TimersOrdered
<1>5. /\ UNCHANGED <<now, t1, start, lease, conf>>
      /\ \/ state' = "INIT_SELECTING" /\ pc' = "lost"
         \/ state' = "REBINDING" /\ pc' = "top" /\ t2' = gap \div 2 + t2 /\ timeout' = t2' + start
  BY <1>2 DEF RebindTimeout
<1> HIDE DEF gap
<1>6. SelectCurrent'
  BY <1>5 DEF SelectCurrent
<1>7. HeldOnly'
  BY <1>5 DEF HeldOnly, Holding, States
<1>8. TimersRun'
  <2>1. CASE state' = "INIT_SELECTING" /\ pc' = "lost"
    BY <2>1 DEF TimersRun, LoopPcs, Running, States, Holding
  <2>2. CASE state' = "REBINDING" /\ pc' = "top" /\ t2' = gap \div 2 + t2 /\ timeout' = t2' + start
    <3>1. gap \div 2 \in Nat /\ gap \div 2 <= gap
      BY <1>4
    <3>2. t1 <= t2' /\ t2' <= lease /\ now <= timeout' /\ timeout' = start + t2'
      BY <1>2, <1>3, <1>4, <2>2, <3>1 DEF TimersOrdered
    <3> QED BY <1>2, <1>5, <2>2, <3>2 DEF TimersRun, TimersOrdered, LoopPcs, Holding
  <2> QED BY <1>5, <2>1, <2>2
<1> QED BY <1>6, <1>7, <1>8

\* An ACK: the deadline is t1, and the script returns before it.
LEMMA LeaseAck ==
    ASSUME Undisturbed, LeaseInv, NEW p \in Packets, ReceiveAck(p)
    PROVE  SelectCurrent' /\ HeldOnly' /\ TimersRun'
<1> DEFINE l == LeaseOf(p)
<1>1. l \in Nat /\ 7 * l < Word /\ MaxScript <= l \div 2 /\ l < Word
  <2>1. l \in Nat /\ 7 * l < Word /\ MaxScript <= l \div 2
    BY PacketFields DEF Undisturbed
  <2> QED BY <2>1, Constants
<1>2. /\ lease' = l /\ t1' = l \div 2 /\ t2' = SevenEighths(l) /\ start' = now
      /\ timeout' = t1' + now /\ pc' = "bound" /\ spent' = 0
      /\ state \in Leased /\ pc = "select" /\ UNCHANGED <<now, state, conf>>
  BY DEF ReceiveAck, Heard
<1> HIDE DEF l
<1>3. l \div 2 <= t2' /\ t2' <= l
  BY <1>1, <1>2, SevenEighthsExact
<1>4. now \in Nat /\ MaxScript \in Nat
  BY Constants DEF LeaseInv, TypeOK
<1>5. TimersRun'
  BY <1>1, <1>2, <1>3, <1>4 DEF TimersRun, TimersOrdered, LoopPcs, Running, States, Holding
<1>6. SelectCurrent' /\ HeldOnly'
  BY <1>2 DEF SelectCurrent, LeaseInv, HeldOnly, Holding, Leased, States
<1> QED BY <1>5, <1>6

\* Every step of an undisturbed client keeps the invariant.
LEMMA LeaseStep ==
    ASSUME Undisturbed
    PROVE  LeaseInv /\ [Next]_vars => LeaseInv'
<1> SUFFICES ASSUME LeaseInv, [Next]_vars PROVE LeaseInv'
  OBVIOUS
<1>0. TypeOK' /\ TypeOK
  BY TypeStep DEF LeaseInv
<1> SUFFICES SelectCurrent' /\ HeldOnly' /\ TimersRun'
  BY <1>0 DEF LeaseInv
<1> USE DEF LoopPcs, TimersOrdered, States, ModePcs, Running, Holding
<1>1. CASE ComputeTv \/ OpenSocket \/ EnterSelect
  BY <1>0, <1>1 DEF ComputeTv, OpenSocket, EnterSelect, Exit, LeaseInv, SelectCurrent,
                    HeldOnly, TimersRun, times
<1>18. CASE TimedOut
  <2>1. /\ pc \in {"armed", "select"} /\ pc' = state /\ now >= timeout
        /\ UNCHANGED <<now, state, timeout, times, spent, conf>>
    BY <1>18 DEF TimedOut, LeaseInv, SelectCurrent
  <2> QED BY <1>0, <2>1 DEF TypeOK, LeaseInv, SelectCurrent, HeldOnly, TimersRun, times
<1>2. CASE InitTimeout
  BY <1>2 DEF InitTimeout, LeaseInv, SelectCurrent, HeldOnly, TimersRun
<1>3. CASE InitRoundOver
  BY <1>3 DEF InitRoundOver, Exit, LeaseInv, SelectCurrent, HeldOnly, TimersRun
<1>4. CASE RequestTimeout
  BY <1>4 DEF RequestTimeout, LeaseInv, SelectCurrent, HeldOnly, TimersRun
<1>19. CASE BoundTimeout
  BY <1>19 DEF BoundTimeout, LeaseInv, SelectCurrent, HeldOnly, TimersRun, times
<1>20. CASE OfferTaken
  BY <1>20 DEF OfferTaken, LeaseInv, SelectCurrent, HeldOnly, TimersRun
<1>21. CASE ChangeMode
  BY <1>21 DEF ChangeMode, LeaseInv, SelectCurrent, HeldOnly, TimersRun, times
<1>5. CASE RenewTimeout
  BY <1>5, LeaseRenew
<1>6. CASE RebindTimeout
  BY <1>6, LeaseRebind
<1>7. CASE ReleasedTimeout
  BY <1>7 DEF ReleasedTimeout, LeaseInv, HeldOnly
<1>8. ASSUME NEW p \in Packets, ReceiveOffer(p)
      PROVE  SelectCurrent' /\ HeldOnly' /\ TimersRun'
  BY <1>8 DEF ReceiveOffer, Heard, LeaseInv, SelectCurrent, HeldOnly, TimersRun, Holding
<1>9. ASSUME NEW p \in Packets, ReceiveAck(p)
      PROVE  SelectCurrent' /\ HeldOnly' /\ TimersRun'
  BY <1>9, LeaseAck
<1>10. ASSUME NEW p \in Packets, ReceiveNak(p)
       PROVE  SelectCurrent' /\ HeldOnly' /\ TimersRun'
  BY <1>10 DEF ReceiveNak, Heard, LeaseInv, SelectCurrent, HeldOnly, TimersRun, Holding, Leased
<1>11. ASSUME NEW p \in Packets, Ignore(p) \/ ReadError
       PROVE  SelectCurrent' /\ HeldOnly' /\ TimersRun'
  BY <1>11 DEF Ignore, ReadError, Heard, LeaseInv, SelectCurrent, HeldOnly, TimersRun, times
<1>12. CASE Return
  <2>1. CASE Started
    BY <2>1 DEF Started, LeaseInv, SelectCurrent, HeldOnly, TimersRun
  <2>2. CASE ScriptConfigures
    BY <2>2 DEF ScriptConfigures, LeaseInv, SelectCurrent, HeldOnly, TimersRun, times
  <2>3. CASE AckReturns
    <3>1. now <= timeout
      <4>1. /\ timeout = start + t1 /\ now = start + spent /\ spent <= MaxScript
            /\ MaxScript <= t1
        BY <2>3 DEF AckReturns, LeaseInv, TimersRun
      <4> QED BY <1>0, <4>1, Constants DEF TypeOK
    <3> QED BY <2>3, <3>1 DEF AckReturns, LeaseInv, SelectCurrent, HeldOnly, TimersRun, times,
                              Holding
  <2>4. CASE SleepOver
    BY <2>4 DEF SleepOver, LeaseInv, SelectCurrent, HeldOnly, TimersRun, Holding
  <2>5. CASE LostReturns
    BY <2>5 DEF LostReturns, LeaseInv, SelectCurrent, HeldOnly, TimersRun
  <2>6. CASE NakReturns
    BY <2>6 DEF NakReturns, NakOver, Deconfigures, LeaseInv, SelectCurrent, HeldOnly,
                TimersRun, Holding
  <2>7. CASE DeconfigReturns
    BY <2>7 DEF DeconfigReturns, NakOver, LeaseInv, SelectCurrent, HeldOnly, TimersRun
  <2> QED BY <1>12, <2>1, <2>2, <2>3, <2>4, <2>5, <2>6, <2>7 DEF Return
<1>13. /\ ~renew_requested /\ ~release_requested
       /\ ~RenewInterrupted /\ ~ReleaseInterrupted
  BY DEF renew_requested, release_requested, RenewInterrupted, ReleaseInterrupted, Undisturbed
<1>14. CASE terminate
  BY <1>14 DEF terminate, Exit, LeaseInv, SelectCurrent, HeldOnly, TimersRun
<1>15. CASE Tick
  <2>1. CASE pc = "select"
    <3>1. now < sel /\ now' = now + 1
      BY <1>15, <2>1 DEF Tick, ScriptPcs
    <3>2. now' <= timeout
      BY <1>0, <2>1, <3>1 DEF LeaseInv, SelectCurrent, TypeOK
    <3> QED BY <1>15, <2>1, <3>2 DEF Tick, LeaseInv, SelectCurrent, HeldOnly, TimersRun, times
  <2>2. CASE pc # "select"
    <3>1. /\ pc \notin Running /\ pc \notin Holding \cup {"kernel"}
          /\ now' = now + 1 /\ spent' = spent + 1
      BY <1>15, <2>2 DEF Tick, ScriptPcs
    <3>2. pc \in {"bound", "bound2"} => spent < MaxScript
      BY <1>15, <2>2 DEF Tick
    <3>3. UNCHANGED <<pc, state, timeout, sel, conf, times>>
      BY <1>15 DEF Tick
    <3>4. SelectCurrent' /\ HeldOnly'
      BY <3>3 DEF LeaseInv, SelectCurrent, HeldOnly
    <3>5. TimersRun'
      <4>1. /\ now \in Nat /\ spent \in Nat /\ start \in Nat /\ MaxScript \in Nat
            /\ pc' \notin Running /\ pc' \notin Holding \cup {"kernel"}
        BY <1>0, <3>1, <3>3, Constants DEF TypeOK
      <4>2. ASSUME pc' \in {"bound", "bound2"}
            PROVE  /\ TimersOrdered' /\ timeout' = start' + t1' /\ now' = start' + spent'
                   /\ spent' <= MaxScript /\ MaxScript <= t1'
        BY <3>1, <3>2, <3>3, <4>1, <4>2 DEF LeaseInv, TimersRun, times
      <4> HIDE DEF Running, Holding, LoopPcs
      <4> QED BY <4>1, <4>2 DEF TimersRun
    <3> QED BY <3>4, <3>5
  <2> QED BY <2>1, <2>2
<1>16. CASE UNCHANGED vars
  BY <1>16 DEF vars, LeaseInv, SelectCurrent, HeldOnly, TimersRun, times
<1>17. CASE ReadError
  BY <1>17 DEF ReadError, Heard, LeaseInv, SelectCurrent, HeldOnly, TimersRun, times
<1> QED BY <1>1, <1>2, <1>3, <1>4, <1>5, <1>6, <1>7, <1>8, <1>9, <1>10, <1>11, <1>12,
           <1>13, <1>14, <1>15, <1>16, <1>17, <1>18, <1>19, <1>20, <1>21
        DEF Next, Loop, Timeout, Receive, Signal, Finish

\* The invariant holds when the client starts.
LEMMA LeaseInit == Init => LeaseInv
  BY TypeInit DEF Init, LeaseInv, SelectCurrent, HeldOnly, TimersRun, LoopPcs, States, Running,
                  Holding

\* For every lease time a server may name and every order of packets, lost,
\* late or repeated: when its lease ends, the client has called the script
\* that takes the address off the interface.
THEOREM AddressGoesInTime ==
    ASSUME Undisturbed
    PROVE  Spec => []ConfiguredWithinLease
<1>1. LeaseInv => ConfiguredWithinLease
  <2> SUFFICES ASSUME LeaseInv, pc # "exit", conf # 0, ~Deconfiguring
               PROVE  now <= start + lease
    BY DEF ConfiguredWithinLease
  <2>1. /\ now \in Nat /\ start \in Nat /\ t1 \in Nat /\ t2 \in Nat /\ lease \in Nat
        /\ timeout \in Nat /\ spent \in Nat /\ MaxScript \in Nat
        /\ pc \in LoopPcs \cup ScriptPcs \cup Windows \cup {"sleep", "exit"}
    BY Constants DEF LeaseInv, TypeOK
  <2>2. pc \in {"bound", "bound2"} \/ (pc \in Running /\ state \in Holding)
    BY <2>1 DEF LeaseInv, HeldOnly, Holding, Deconfiguring, LoopPcs, ScriptPcs, Windows, ModePcs,
                Running, Leased
  <2>3. CASE pc \in {"bound", "bound2"}
    BY <2>1, <2>3 DEF LeaseInv, TimersRun, TimersOrdered
  <2>4. CASE pc \in Running /\ state \in Holding
    BY <2>1, <2>4 DEF LeaseInv, TimersRun, TimersOrdered, Holding
  <2> QED BY <2>2, <2>3, <2>4
<1> QED BY <1>1, LeaseInit, LeaseStep, PTL DEF Spec

\* A client that looks for a lease has no address on its interface.
THEOREM NoAddressWithoutLease ==
    ASSUME Undisturbed
    PROVE  Spec => []UnboundIsDeconfigured
<1>1. LeaseInv => UnboundIsDeconfigured
  BY DEF LeaseInv, HeldOnly, Holding, UnboundIsDeconfigured, LoopPcs
<1> QED BY <1>1, LeaseInit, LeaseStep, PTL DEF Spec

\* However short the lease, a renewal is followed by a wait: the threshold of
\* the halving keeps the deadline moving.
THEOREM RenewalsAreSpaced ==
    ASSUME Undisturbed
    PROVE  Spec => RenewalsSpaced
<1>1. LeaseInv /\ [Next]_vars =>
        [state' \in {"RENEWING", "REBINDING"} /\ sent'.type = "RENEW" => timeout' > now]_vars
  <2> SUFFICES ASSUME LeaseInv, Next, state' \in {"RENEWING", "REBINDING"},
                      sent'.type = "RENEW"
               PROVE  timeout' > now
    OBVIOUS
  <2>1. /\ t1 \in Nat /\ t2 \in Nat /\ lease \in Nat /\ start \in Nat /\ now \in Nat
    BY DEF LeaseInv, TypeOK
  <2>2. ~SendNothing
    BY DEF SendNothing, NoMessage
  <2>3. RenewTimeout \/ RebindTimeout
    <3>1. /\ ~renew_requested /\ ~release_requested
          /\ ~RenewInterrupted /\ ~ReleaseInterrupted
      BY DEF renew_requested, release_requested, RenewInterrupted, ReleaseInterrupted,
             Undisturbed
    <3>2. ~RequestTimeout
      BY <2>2 DEF RequestTimeout, LeaseInv, HeldOnly, States
    <3>3. ~InitTimeout
      BY DEF InitTimeout, LeaseInv, HeldOnly, States
    <3> QED BY <2>2, <3>1, <3>2, <3>3
            DEF Next, Loop, ComputeTv, OpenSocket, EnterSelect, TimedOut, Timeout,
                InitRoundOver, BoundTimeout, ReleasedTimeout, Finish, OfferTaken, ChangeMode,
                Receive, ReceiveOffer, ReceiveAck, ReceiveNak, Ignore,
                ReadError, Return, Started, LostReturns, ScriptConfigures, AckReturns,
                NakReturns, DeconfigReturns, SleepOver, Signal, terminate, Tick
  <2>4. lease \div 14400 \in Nat
    BY <2>1
  <2>5. CASE RenewTimeout
    <3> DEFINE gap == Minus(t2, t1)
    <3>1. ~TooClose(gap) /\ t1' = gap \div 2 + t1 /\ timeout' = t1' + start
      BY <2>2, <2>5 DEF RenewTimeout
    <3>2. TimersOrdered /\ now = start + t1
      BY <2>5, OnTime DEF RenewTimeout, Holding
    <3>3. gap \in Nat
      BY <2>1, MinusType
    <3> HIDE DEF gap
    <3>4. gap >= 2
      BY <2>4, <3>1, <3>3 DEF TooClose
    <3>5. gap \div 2 >= 1
      BY <3>3, <3>4
    <3> QED BY <2>1, <3>1, <3>2, <3>3, <3>5
  <2>6. CASE RebindTimeout
    <3> DEFINE gap == Minus(lease, t2)
    <3>1. ~TooClose(gap) /\ t2' = gap \div 2 + t2 /\ timeout' = t2' + start
      BY <2>2, <2>6 DEF RebindTimeout
    <3>2. TimersOrdered /\ now = start + t2
      BY <2>6, OnTime DEF RebindTimeout, Holding
    <3>3. gap \in Nat
      BY <2>1, MinusType
    <3> HIDE DEF gap
    <3>4. gap >= 2
      BY <2>4, <3>1, <3>3 DEF TooClose
    <3>5. gap \div 2 >= 1
      BY <3>3, <3>4
    <3> QED BY <2>1, <3>1, <3>2, <3>3, <3>5
  <2> QED BY <2>3, <2>5, <2>6
<1> QED BY <1>1, LeaseInit, LeaseStep, PTL DEF Spec, RenewalsSpaced
=============================================================================
