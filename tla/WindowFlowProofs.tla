-------------------------- MODULE WindowFlowProofs --------------------------
(***************************************************************************)
(* Flow control for every set of streams, every credit and every limit:    *)
(* credit is conserved, no honest peer is accused, and the windows         *)
(* implement the bounded pipe.                                             *)
(*                                                                         *)
(* What the shared counter `accumulated` adds up to is a sum over streams; *)
(* credit and accusations do not depend on it, and in IInv it is only an   *)
(* integer that stays within the budget.  The second part gives the budget *)
(* of a connection: `accumulated` is what all open windows have grown by,  *)
(* so each window's growth is part of it, it never falls below zero, and   *)
(* no limit computed from it leaves a usize.                               *)
(***************************************************************************)
EXTENDS WindowFlow, Integers, FiniteSetTheorems, WellFoundedInduction, TLAPS

Typing ==
  /\ fc \in [Stream -> Controller]
  /\ inflight \in [Stream -> Nat]
  /\ buffer \in [Stream -> Nat]
  /\ granted \in [Stream -> Nat]
  /\ accumulated \in Int
  /\ rtt_known \in BOOLEAN
  /\ open \subseteq Stream

(* One open stream: its credit adds up, what is buffered came out of the    *)
(* window, and the window lies between the default and a u32.               *)
StreamInv(s) ==
  /\ fc[s].receive_window = fc[s].send_window + inflight[s] + granted[s]
  /\ fc[s].receive_window + buffer[s] <= fc[s].max_receive_window
  /\ DEFAULT_CREDIT <= fc[s].max_receive_window
  /\ fc[s].max_receive_window <= U32_MAX

IInv ==
  /\ Typing
  /\ \A s \in open : StreamInv(s)
  /\ accumulated <= Budget
  /\ ~terminated

-----------------------------------------------------------------------------
(* The budget is a natural number. *)
LEMMA BudgetNat == Budget \in Nat
<1>1. max_num_streams * DEFAULT_CREDIT \in Nat
  BY FlowAssumption
<1> QED
  BY <1>1, FlowAssumption DEF Budget, SaturatingSub, Least

(* What build() lets through: where the multiplication saturates the whole  *)
(* window is spoken for, otherwise the streams' default credits fit it.     *)
LEMMA BudgetOf ==
  /\ max_num_streams * DEFAULT_CREDIT <= USIZE_MAX =>
       Budget = max_connection_receive_window - max_num_streams * DEFAULT_CREDIT
  /\ max_num_streams * DEFAULT_CREDIT > USIZE_MAX => Budget = 0
<1>1. max_num_streams * DEFAULT_CREDIT \in Nat
  BY FlowAssumption
<1> QED
  BY <1>1, FlowAssumption DEF Budget, SaturatingSub, Least

(* Auto-tuning never shrinks a window, never leaves u32, and takes no more  *)
(* than the budget has left.                                                *)
LEMMA TunedMaxBounds ==
  ASSUME NEW c \in Controller, NEW acc \in Int, acc <= Budget,
         c.max_receive_window <= U32_MAX
  PROVE  /\ TunedMax(c, acc) \in Nat
         /\ c.max_receive_window <= TunedMax(c, acc)
         /\ TunedMax(c, acc) <= U32_MAX
         /\ TunedMax(c, acc) - c.max_receive_window <= Budget - acc
<1>1. c.max_receive_window \in Nat
  BY DEF Controller
<1> QED
  BY <1>1, BudgetNat, FlowAssumption
     DEF TunedMax, ConnectionLimit, Least, SaturatingSub

(* A window update grants exactly what it adds to the receive window, and   *)
(* leaves room for what is still buffered.                                  *)
LEMMA NextWindowUpdateFacts ==
  ASSUME NEW c \in Controller, NEW b \in Nat, NEW acc \in Int, NEW fast \in BOOLEAN,
         acc <= Budget, c.max_receive_window <= U32_MAX,
         c.receive_window + b <= c.max_receive_window
  PROVE  LET u == NextWindowUpdate(c, b, acc, fast)
         IN  /\ u.fc \in Controller
             /\ u.credit \in Nat
             /\ u.accumulated \in Int
             /\ u.fc.send_window = c.send_window
             /\ u.fc.receive_window = c.receive_window + u.credit
             /\ u.fc.receive_window + b = u.fc.max_receive_window
             /\ c.max_receive_window <= u.fc.max_receive_window
             /\ u.fc.max_receive_window <= U32_MAX
             /\ u.accumulated = acc + (u.fc.max_receive_window - c.max_receive_window)
             /\ u.accumulated <= Budget
<1> DEFINE m == NextMax(c, acc, fast)
           grown == [c EXCEPT !.max_receive_window = m]
           credit == Ungranted(grown, b)
           u == NextWindowUpdate(c, b, acc, fast)
<1>1. /\ c.receive_window \in Nat /\ c.max_receive_window \in Nat /\ c.send_window \in Nat
      /\ c = [receive_window |-> c.receive_window,
              max_receive_window |-> c.max_receive_window,
              send_window |-> c.send_window]
  BY DEF Controller
<1>2. /\ m \in Nat /\ c.max_receive_window <= m /\ m <= U32_MAX
      /\ m - c.max_receive_window <= Budget - acc
  BY <1>1, TunedMaxBounds, BudgetNat DEF NextMax
<1>3. /\ grown = [receive_window |-> c.receive_window,
                  max_receive_window |-> m,
                  send_window |-> c.send_window]
  BY <1>1
<1>4. credit = (m - c.receive_window) - b /\ credit \in Nat
  BY <1>1, <1>2, <1>3 DEF Ungranted, SaturatingSub
<1>5. /\ u.fc = [grown EXCEPT !.receive_window = @ + credit]
      /\ u.accumulated = acc + (grown.max_receive_window - c.max_receive_window)
      /\ u.credit = credit
  BY DEF NextWindowUpdate
<1>6. u.fc = [receive_window |-> c.receive_window + credit,
              max_receive_window |-> m, send_window |-> c.send_window]
  BY <1>1, <1>3, <1>5
<1> HIDE DEF m, credit, grown, u
<1>7. grown.max_receive_window = m
  BY <1>3
<1>8. u.fc \in Controller
  BY <1>1, <1>2, <1>4, <1>6 DEF Controller
<1>9. /\ u.fc.receive_window = c.receive_window + credit
      /\ u.fc.max_receive_window = m
      /\ u.fc.send_window = c.send_window
  BY <1>6
<1>10. QED
  BY <1>1, <1>2, <1>4, <1>5, <1>7, <1>8, <1>9, BudgetNat DEF u

-----------------------------------------------------------------------------
LEMMA InitIInv == Init => IInv
<1> SUFFICES ASSUME Init PROVE IInv
  OBVIOUS
<1>1. NewController \in Controller
  BY FlowAssumption DEF NewController, Controller
<1>2. fc \in [Stream -> Controller]
  BY <1>1, Zenon DEF Init
<1>3. /\ inflight \in [Stream -> Nat]
      /\ buffer \in [Stream -> Nat]
      /\ granted \in [Stream -> Nat]
      /\ accumulated \in Int
  BY DEF Init
<1>4. rtt_known \in BOOLEAN /\ open \subseteq Stream
  BY DEF Init
<1> QED
  BY <1>2, <1>3, <1>4, BudgetNat DEF Init, IInv, Typing

(* A step that touches one stream leaves the invariant of the others alone. *)
LEMMA OnlyStream ==
  ASSUME IInv, NEW s \in Stream, Typing', accumulated' <= Budget, ~terminated',
         open' \subseteq open \cup {s},
         \A t \in Stream \ {s} :
           /\ fc'[t] = fc[t] /\ inflight'[t] = inflight[t]
           /\ buffer'[t] = buffer[t] /\ granted'[t] = granted[t],
         s \in open' => StreamInv(s)'
  PROVE  IInv'
<1>1. ASSUME NEW t \in open' PROVE StreamInv(t)'
  <2>1. CASE t = s
    BY <1>1, <2>1
  <2>2. CASE t # s
    <3>1. t \in open /\ t \in Stream \ {s}
      BY <1>1, <2>2 DEF IInv, Typing
    <3> QED
      BY <3>1 DEF IInv, StreamInv
  <2> QED
    BY <2>1, <2>2
<1> QED
  BY <1>1 DEF IInv

LEMMA StepIInv == IInv /\ [Next]_vars => IInv'
<1> SUFFICES ASSUME IInv, [Next]_vars PROVE IInv'
  OBVIOUS
<1> USE FlowAssumption
<1>1. ASSUME NEW s \in Stream, OpenStream(s) PROVE IInv'
  <2>1. NewController \in Controller
    BY DEF NewController, Controller
  <2>2. Typing'
    BY <1>1, <2>1 DEF OpenStream, IInv, Typing
  <2>3. StreamInv(s)'
    <3>1. /\ fc'[s] = NewController
          /\ inflight'[s] = 0 /\ granted'[s] = 0 /\ buffer'[s] = 0
      BY <1>1 DEF OpenStream, IInv, Typing
    <3>2. /\ NewController.receive_window = DEFAULT_CREDIT
          /\ NewController.max_receive_window = DEFAULT_CREDIT
          /\ NewController.send_window = DEFAULT_CREDIT
      BY DEF NewController
    <3> QED
      BY <3>1, <3>2 DEF StreamInv
  <2>4. \A t \in Stream \ {s} :
          /\ fc'[t] = fc[t] /\ inflight'[t] = inflight[t]
          /\ buffer'[t] = buffer[t] /\ granted'[t] = granted[t]
    BY <1>1 DEF OpenStream, IInv, Typing
  <2> QED
    BY <1>1, <2>2, <2>3, <2>4, OnlyStream DEF OpenStream, IInv
<1>2. ASSUME NEW s \in Stream, Write(s) PROVE IInv'
  <2>1. PICK k \in 1 .. fc[s].send_window :
          /\ fc' = [fc EXCEPT ![s] = ConsumeSend(@, k)]
          /\ inflight' = [inflight EXCEPT ![s] = @ + k]
    BY <1>2 DEF Write
  <2>2. /\ ConsumeSend(fc[s], k) \in Controller
        /\ ConsumeSend(fc[s], k).send_window = fc[s].send_window - k
        /\ ConsumeSend(fc[s], k).receive_window = fc[s].receive_window
        /\ ConsumeSend(fc[s], k).max_receive_window = fc[s].max_receive_window
    BY <2>1 DEF ConsumeSend, IInv, Typing, Controller
  <2>3. Typing'
    BY <1>2, <2>1, <2>2 DEF Write, IInv, Typing
  <2>4. StreamInv(s)'
    BY <1>2, <2>1, <2>2 DEF Write, IInv, Typing, StreamInv, Controller
  <2>5. \A t \in Stream \ {s} :
          /\ fc'[t] = fc[t] /\ inflight'[t] = inflight[t]
          /\ buffer'[t] = buffer[t] /\ granted'[t] = granted[t]
    BY <1>2, <2>1 DEF Write, IInv, Typing
  <2> QED
    BY <1>2, <2>3, <2>4, <2>5, OnlyStream DEF Write, IInv
<1>3. ASSUME NEW s \in Stream, OnData(s) PROVE IInv'
  <2>1. PICK k \in 1 .. inflight[s] :
          /\ inflight' = [inflight EXCEPT ![s] = @ - k]
          /\ IF Admitted(s, k)
               THEN /\ fc' = [fc EXCEPT ![s] = ConsumeReceive(@, k)]
                    /\ buffer' = [buffer EXCEPT ![s] = @ + k]
                    /\ UNCHANGED terminated
               ELSE /\ terminated' = TRUE
                    /\ UNCHANGED <<fc, buffer>>
    BY <1>3 DEF OnData
  <2>2. Admitted(s, k)
    BY <1>3, <2>1 DEF OnData, Admitted, IInv, StreamInv, Typing, Controller
  <2>3. /\ ConsumeReceive(fc[s], k) \in Controller
        /\ ConsumeReceive(fc[s], k).send_window = fc[s].send_window
        /\ ConsumeReceive(fc[s], k).receive_window = fc[s].receive_window - k
        /\ ConsumeReceive(fc[s], k).max_receive_window = fc[s].max_receive_window
    BY <2>1, <2>2 DEF ConsumeReceive, Admitted, IInv, Typing, Controller
  <2>4. Typing'
    BY <1>3, <2>1, <2>2, <2>3 DEF OnData, IInv, Typing
  <2>5. StreamInv(s)'
    BY <1>3, <2>1, <2>2, <2>3 DEF OnData, IInv, Typing, StreamInv, Controller
  <2>6. \A t \in Stream \ {s} :
          /\ fc'[t] = fc[t] /\ inflight'[t] = inflight[t]
          /\ buffer'[t] = buffer[t] /\ granted'[t] = granted[t]
    BY <1>3, <2>1, <2>2 DEF OnData, IInv, Typing
  <2> QED
    BY <1>3, <2>1, <2>2, <2>4, <2>5, <2>6, OnlyStream DEF OnData, IInv
<1>4. ASSUME NEW s \in Stream, IgnoreLeftovers(s) PROVE IInv'
  <2>1. Typing'
    BY <1>4 DEF IgnoreLeftovers, IInv, Typing
  <2>2. \A t \in Stream \ {s} :
          /\ fc'[t] = fc[t] /\ inflight'[t] = inflight[t]
          /\ buffer'[t] = buffer[t] /\ granted'[t] = granted[t]
    BY <1>4 DEF IgnoreLeftovers, IInv, Typing
  <2> QED
    BY <1>4, <2>1, <2>2, OnlyStream DEF IgnoreLeftovers, IInv
<1>5. ASSUME NEW s \in Stream, NEW ready \in BOOLEAN, PollRead(s, ready) PROVE IInv'
  <2>1. PICK n \in (IF buffer[s] = 0 THEN {0} ELSE 1 .. buffer[s]) :
          buffer' = [buffer EXCEPT ![s] = @ - n]
    BY <1>5 DEF PollRead
  <2>2. n \in Nat /\ n <= buffer[s] /\ buffer[s] \in Nat
    BY <2>1 DEF IInv, Typing
  <2>3. \A t \in Stream \ {s} :
          /\ fc'[t] = fc[t] /\ inflight'[t] = inflight[t]
          /\ buffer'[t] = buffer[t] /\ granted'[t] = granted[t]
    BY <1>5, <2>1 DEF PollRead, Grant, IInv, Typing
  <2>4. CASE ready /\ UpdateDue(fc[s], buffer[s])
    <3>1. PICK fast \in BOOLEAN :
            LET update == NextWindowUpdate(fc[s], buffer[s], accumulated, fast)
            IN  /\ fc' = [fc EXCEPT ![s] = update.fc]
                /\ accumulated' = update.accumulated
                /\ granted' = [granted EXCEPT ![s] = @ + update.credit]
      BY <1>5, <2>4 DEF PollRead, Grant
    <3> DEFINE u == NextWindowUpdate(fc[s], buffer[s], accumulated, fast)
    <3>2. /\ fc[s] \in Controller
          /\ fc[s].receive_window + buffer[s] <= fc[s].max_receive_window
          /\ fc[s].max_receive_window <= U32_MAX
          /\ accumulated \in Int /\ accumulated <= Budget
      BY <1>5 DEF PollRead, IInv, Typing, StreamInv
    <3>3. /\ u.fc \in Controller
          /\ u.credit \in Nat
          /\ u.accumulated \in Int
          /\ u.fc.send_window = fc[s].send_window
          /\ u.fc.receive_window = fc[s].receive_window + u.credit
          /\ u.fc.receive_window + buffer[s] = u.fc.max_receive_window
          /\ fc[s].max_receive_window <= u.fc.max_receive_window
          /\ u.fc.max_receive_window <= U32_MAX
          /\ u.accumulated <= Budget
      BY <2>2, <3>2, NextWindowUpdateFacts
    <3>4. /\ fc' = [fc EXCEPT ![s] = u.fc]
          /\ accumulated' = u.accumulated
          /\ granted' = [granted EXCEPT ![s] = @ + u.credit]
      BY <3>1
    <3> HIDE DEF u
    <3>5. Typing'
      BY <1>5, <2>1, <2>2, <3>3, <3>4 DEF PollRead, IInv, Typing
    <3>6. /\ fc'[s] = u.fc /\ granted'[s] = granted[s] + u.credit
          /\ buffer'[s] = buffer[s] - n /\ inflight'[s] = inflight[s]
      BY <1>5, <2>1, <3>4 DEF PollRead, IInv, Typing
    <3>7. StreamInv(s)
      BY <1>5 DEF PollRead, IInv
    <3>8. /\ inflight[s] \in Nat /\ granted[s] \in Nat
          /\ u.fc.receive_window \in Nat /\ u.fc.max_receive_window \in Nat
          /\ fc[s].send_window \in Nat /\ fc[s].receive_window \in Nat
          /\ fc[s].max_receive_window \in Nat
      BY <3>2, <3>3 DEF IInv, Typing, Controller
    <3>9. StreamInv(s)'
      <4>1. fc'[s].receive_window = fc'[s].send_window + inflight'[s] + granted'[s]
        BY <3>3, <3>6, <3>7, <3>8 DEF StreamInv
      <4>2. fc'[s].receive_window + buffer'[s] <= fc'[s].max_receive_window
        BY <2>2, <3>3, <3>6, <3>8
      <4>3. /\ DEFAULT_CREDIT <= fc'[s].max_receive_window
            /\ fc'[s].max_receive_window <= U32_MAX
        BY <3>3, <3>6, <3>7, <3>8 DEF StreamInv
      <4> QED
        BY <4>1, <4>2, <4>3 DEF StreamInv
    <3> QED
      BY <1>5, <2>3, <3>3, <3>4, <3>5, <3>9, OnlyStream DEF PollRead, IInv
  <2>5. CASE ~(ready /\ UpdateDue(fc[s], buffer[s]))
    <3>1. UNCHANGED <<fc, accumulated, granted, inflight, open, terminated, rtt_known>>
      BY <1>5, <2>5 DEF PollRead
    <3>2. Typing'
      BY <2>1, <2>2, <3>1 DEF IInv, Typing
    <3>3. StreamInv(s)'
      BY <1>5, <2>1, <2>2, <3>1 DEF PollRead, IInv, Typing, StreamInv, Controller
    <3> QED
      BY <2>3, <3>1, <3>2, <3>3, OnlyStream DEF IInv
  <2> QED
    BY <2>4, <2>5
<1>6. ASSUME NEW s \in Stream, OnWindowUpdate(s) PROVE IInv'
  <2>1. PICK k \in 1 .. granted[s] :
          /\ granted' = [granted EXCEPT ![s] = @ - k]
          /\ fc' = [fc EXCEPT ![s] = IncreaseSend(@, k)]
    BY <1>6 DEF OnWindowUpdate
  <2>2. /\ IncreaseSend(fc[s], k) \in Controller
        /\ IncreaseSend(fc[s], k).send_window = fc[s].send_window + k
        /\ IncreaseSend(fc[s], k).receive_window = fc[s].receive_window
        /\ IncreaseSend(fc[s], k).max_receive_window = fc[s].max_receive_window
    BY <2>1 DEF IncreaseSend, IInv, Typing, Controller
  <2>3. Typing'
    BY <1>6, <2>1, <2>2 DEF OnWindowUpdate, IInv, Typing
  <2>4. StreamInv(s)'
    BY <1>6, <2>1, <2>2 DEF OnWindowUpdate, IInv, Typing, StreamInv, Controller
  <2>5. \A t \in Stream \ {s} :
          /\ fc'[t] = fc[t] /\ inflight'[t] = inflight[t]
          /\ buffer'[t] = buffer[t] /\ granted'[t] = granted[t]
    BY <1>6, <2>1 DEF OnWindowUpdate, IInv, Typing
  <2> QED
    BY <1>6, <2>3, <2>4, <2>5, OnlyStream DEF OnWindowUpdate, IInv
<1>7. ASSUME HandlePong PROVE IInv'
  BY <1>7 DEF HandlePong, IInv, Typing, StreamInv
<1>8. ASSUME NEW s \in Stream, DropStream(s) PROVE IInv'
  <2>1. NewController \in Controller
    BY DEF NewController, Controller
  <2>2. Released(fc[s], accumulated) \in Int /\ Released(fc[s], accumulated) <= Budget
    BY <1>8, BudgetNat DEF DropStream, Released, IInv, Typing, StreamInv, Controller
  <2>3. Typing'
    BY <1>8, <2>1, <2>2 DEF DropStream, IInv, Typing
  <2>4. \A t \in Stream \ {s} :
          /\ fc'[t] = fc[t] /\ inflight'[t] = inflight[t]
          /\ buffer'[t] = buffer[t] /\ granted'[t] = granted[t]
    BY <1>8 DEF DropStream, IInv, Typing
  <2> QED
    BY <1>8, <2>2, <2>3, <2>4, OnlyStream DEF DropStream, IInv
<1>9. CASE UNCHANGED vars
  BY <1>9 DEF vars, IInv, Typing, StreamInv
<1> QED
  BY <1>1, <1>2, <1>3, <1>4, <1>5, <1>6, <1>7, <1>8, <1>9 DEF Next

(* The inductive invariant holds throughout. *)
LEMMA Invariance == Spec => []IInv
<1> QED
  BY InitIInv, StepIInv, PTL DEF Spec

(* Credit is neither created nor lost, for any number of streams, any       *)
(* credit and any interleaving of the two peers' poll functions.            *)
THEOREM SpecCreditConserved == Spec => []CreditConserved
<1>1. IInv => CreditConserved
  BY DEF IInv, StreamInv, CreditConserved
<1> QED
  BY <1>1, Invariance, PTL

(* An endpoint that follows this code never makes the other terminate the   *)
(* connection for a frame larger than its window.                           *)
THEOREM SpecNeverAccused == Spec => []NeverAccused
<1>1. IInv => NeverAccused
  BY DEF IInv, NeverAccused
<1> QED
  BY <1>1, Invariance, PTL

-----------------------------------------------------------------------------
LEMMA PipeInit == Init => Pipe!Init
  BY DEF Init, Pipe!Init, PipeHeld, PipeLimit

(* Every step is a step of the pipe, or leaves it unchanged. *)
LEMMA PipeStep == IInv /\ [Next]_vars => [Pipe!Next]_(Pipe!vars)
<1> SUFFICES ASSUME IInv, [Next]_vars
             PROVE  Pipe!Next \/ UNCHANGED <<PipeHeld, PipeLimit, accumulated>>
  BY DEF Pipe!vars
<1> USE FlowAssumption
<1>0. ASSUME NEW s \in open
      PROVE  /\ PipeHeld[s] = inflight[s] + buffer[s]
             /\ PipeLimit[s] = fc[s].max_receive_window
             /\ inflight[s] \in Nat /\ buffer[s] \in Nat /\ granted[s] \in Nat
             /\ fc[s].max_receive_window \in Nat \ {0}
             /\ fc[s].receive_window \in Nat /\ fc[s].send_window \in Nat
             /\ s \in Stream
  BY DEF IInv, Typing, StreamInv, Controller, PipeHeld, PipeLimit
<1>1. ASSUME NEW s \in Stream, OpenStream(s) PROVE Pipe!Next
  <2>1. PipeLimit[s] = 0
    BY <1>1 DEF OpenStream, PipeLimit
  <2>2. PipeLimit' = [PipeLimit EXCEPT ![s] = DEFAULT_CREDIT]
    <3>1. fc'[s].max_receive_window = DEFAULT_CREDIT
      BY <1>1 DEF OpenStream, IInv, Typing, NewController
    <3>2. \A t \in Stream \ {s} : fc'[t] = fc[t]
      BY <1>1 DEF OpenStream, IInv, Typing
    <3>3. open' = open \cup {s}
      BY <1>1 DEF OpenStream
    <3> QED
      BY <3>1, <3>2, <3>3 DEF PipeLimit
  <2>3. PipeHeld' = PipeHeld
    BY <1>1 DEF OpenStream, PipeHeld, IInv, Typing
  <2>4. Pipe!Open(s)
    BY <1>1, <2>1, <2>2, <2>3 DEF OpenStream, Pipe!Open
  <2> QED
    BY <2>4 DEF Pipe!Next
<1>2. ASSUME NEW s \in Stream, Write(s) PROVE Pipe!Next
  <2>1. PICK k \in 1 .. fc[s].send_window :
          /\ fc' = [fc EXCEPT ![s] = ConsumeSend(@, k)]
          /\ inflight' = [inflight EXCEPT ![s] = @ + k]
    BY <1>2 DEF Write
  <2>2. s \in open /\ open' = open /\ buffer' = buffer /\ accumulated' = accumulated
    BY <1>2 DEF Write
  <2>3. PipeHeld[s] + k \in PipeHeld[s] .. PipeLimit[s]
    <3>1. StreamInv(s)
      BY <2>2 DEF IInv
    <3>2. k \in Nat /\ k <= fc[s].send_window
      BY <1>0, <2>1, <2>2
    <3> QED
      BY <1>0, <2>2, <3>1, <3>2 DEF StreamInv
  <2>4. PipeHeld' = [PipeHeld EXCEPT ![s] = PipeHeld[s] + k]
    <3>1. inflight'[s] + buffer'[s] = PipeHeld[s] + k
      BY <1>0, <2>1, <2>2 DEF IInv, Typing
    <3>2. \A t \in Stream \ {s} : inflight'[t] = inflight[t]
      BY <2>1 DEF IInv, Typing
    <3> QED
      BY <2>2, <3>1, <3>2 DEF PipeHeld
  <2>5. PipeLimit' = PipeLimit
    <3>1. \A t \in Stream : fc'[t].max_receive_window = fc[t].max_receive_window
      BY <2>1 DEF ConsumeSend, IInv, Typing, Controller
    <3> QED
      BY <2>2, <3>1 DEF PipeLimit
  <2>6. Pipe!Accept(s)
    BY <2>2, <2>3, <2>4, <2>5 DEF Pipe!Accept
  <2> QED
    BY <2>6 DEF Pipe!Next
<1>3. ASSUME NEW s \in Stream, OnData(s)
      PROVE  UNCHANGED <<PipeHeld, PipeLimit, accumulated>>
  <2>1. PICK k \in 1 .. inflight[s] :
          /\ inflight' = [inflight EXCEPT ![s] = @ - k]
          /\ IF Admitted(s, k)
               THEN /\ fc' = [fc EXCEPT ![s] = ConsumeReceive(@, k)]
                    /\ buffer' = [buffer EXCEPT ![s] = @ + k]
                    /\ UNCHANGED terminated
               ELSE /\ terminated' = TRUE
                    /\ UNCHANGED <<fc, buffer>>
    BY <1>3 DEF OnData
  <2>2. s \in open /\ open' = open /\ accumulated' = accumulated
    BY <1>3 DEF OnData
  <2>3. Admitted(s, k)
    BY <1>0, <2>1, <2>2 DEF Admitted, IInv, StreamInv
  <2>4. \A t \in Stream : fc'[t].max_receive_window = fc[t].max_receive_window
    BY <2>1, <2>3 DEF ConsumeReceive, IInv, Typing, Controller
  <2>5. \A t \in Stream : inflight'[t] + buffer'[t] = inflight[t] + buffer[t]
    BY <1>0, <2>1, <2>2, <2>3 DEF IInv, Typing
  <2> QED
    BY <2>2, <2>4, <2>5 DEF PipeHeld, PipeLimit
<1>4. ASSUME NEW s \in Stream, IgnoreLeftovers(s)
      PROVE  UNCHANGED <<PipeHeld, PipeLimit, accumulated>>
  BY <1>4 DEF IgnoreLeftovers, PipeHeld, PipeLimit, IInv, Typing
<1>5. ASSUME NEW s \in Stream, NEW ready \in BOOLEAN, PollRead(s, ready)
      PROVE  Pipe!Next
  <2>0. s \in open /\ inflight' = inflight /\ open' = open
    BY <1>5 DEF PollRead
  <2>1. PICK n \in (IF buffer[s] = 0 THEN {0} ELSE 1 .. buffer[s]) :
          buffer' = [buffer EXCEPT ![s] = @ - n]
    BY <1>5 DEF PollRead
  <2>2. n \in Nat /\ n <= buffer[s]
    BY <1>0, <2>0, <2>1
  <2>3. /\ PipeHeld' = [PipeHeld EXCEPT ![s] = PipeHeld[s] - n]
        /\ PipeHeld[s] - n \in 0 .. PipeHeld[s]
    <3>1. /\ buffer'[s] = buffer[s] - n
          /\ \A t \in Stream \ {s} : buffer'[t] = buffer[t]
      BY <2>0, <2>1 DEF IInv, Typing
    <3>2. inflight[s] + buffer'[s] = PipeHeld[s] - n
      BY <1>0, <2>0, <2>2, <3>1
    <3>3. PipeHeld' = [PipeHeld EXCEPT ![s] = PipeHeld[s] - n]
      BY <2>0, <3>1, <3>2 DEF PipeHeld
    <3>4. PipeHeld[s] - n \in 0 .. PipeHeld[s]
      BY <1>0, <2>0, <2>2
    <3> QED
      BY <3>3, <3>4
  <2>4. PICK d \in 0 .. (Budget - accumulated) :
          /\ PipeLimit' = [PipeLimit EXCEPT ![s] = PipeLimit[s] + d]
          /\ accumulated' = accumulated + d
    <3>1. CASE ready /\ UpdateDue(fc[s], buffer[s])
      <4>1. PICK fast \in BOOLEAN :
              LET update == NextWindowUpdate(fc[s], buffer[s], accumulated, fast)
              IN  /\ fc' = [fc EXCEPT ![s] = update.fc]
                  /\ accumulated' = update.accumulated
                  /\ granted' = [granted EXCEPT ![s] = @ + update.credit]
        BY <1>5, <3>1 DEF PollRead, Grant
      <4> DEFINE u == NextWindowUpdate(fc[s], buffer[s], accumulated, fast)
                 d == u.fc.max_receive_window - fc[s].max_receive_window
      <4>2. /\ fc[s] \in Controller
            /\ fc[s].receive_window + buffer[s] <= fc[s].max_receive_window
            /\ fc[s].max_receive_window <= U32_MAX
            /\ accumulated \in Int /\ accumulated <= Budget
        BY <2>0 DEF IInv, Typing, StreamInv
      <4>3. /\ u.fc \in Controller
            /\ fc[s].max_receive_window <= u.fc.max_receive_window
            /\ u.accumulated = accumulated + d
            /\ u.accumulated <= Budget
        BY <1>0, <2>0, <4>2, NextWindowUpdateFacts
      <4>4. fc' = [fc EXCEPT ![s] = u.fc] /\ accumulated' = u.accumulated
        BY <4>1
      <4> HIDE DEF u
      <4>5. u.fc.max_receive_window \in Nat
        BY <4>3 DEF Controller
      <4>6. d \in 0 .. (Budget - accumulated)
        BY <1>0, <2>0, <4>2, <4>3, <4>5, BudgetNat
      <4>7. PipeLimit' = [PipeLimit EXCEPT ![s] = PipeLimit[s] + d]
        <5>1. fc'[s].max_receive_window = PipeLimit[s] + d
          BY <1>0, <2>0, <4>2, <4>4, <4>5 DEF IInv, Typing
        <5>2. \A t \in Stream \ {s} : fc'[t] = fc[t]
          BY <4>4 DEF IInv, Typing
        <5> QED
          BY <2>0, <5>1, <5>2 DEF PipeLimit
      <4> QED
        BY <4>3, <4>4, <4>6, <4>7
    <3>2. CASE ~(ready /\ UpdateDue(fc[s], buffer[s]))
      <4>1. fc' = fc /\ accumulated' = accumulated
        BY <1>5, <3>2 DEF PollRead
      <4>2. /\ PipeLimit' = [PipeLimit EXCEPT ![s] = PipeLimit[s] + 0]
            /\ accumulated' = accumulated + 0
        <5>1. PipeLimit[s] + 0 = PipeLimit[s] /\ accumulated + 0 = accumulated
          BY <1>0, <2>0 DEF IInv, Typing
        <5>2. PipeLimit' = PipeLimit
          BY <2>0, <4>1 DEF PipeLimit
        <5>3. PipeLimit = [PipeLimit EXCEPT ![s] = PipeLimit[s]]
          BY DEF PipeLimit
        <5> QED
          BY <4>1, <5>1, <5>2, <5>3
      <4>3. 0 \in 0 .. (Budget - accumulated)
        BY BudgetNat DEF IInv, Typing
      <4> QED
        BY <4>2, <4>3
    <3> QED
      BY <3>1, <3>2
  <2>5. PipeLimit[s] # 0
    BY <1>0, <2>0
  <2>6. Pipe!Consume(s)
    BY <2>3, <2>4, <2>5 DEF Pipe!Consume
  <2> QED
    BY <2>6 DEF Pipe!Next
<1>6. ASSUME NEW s \in Stream, OnWindowUpdate(s)
      PROVE  UNCHANGED <<PipeHeld, PipeLimit, accumulated>>
  <2>1. PICK k \in 1 .. granted[s] : fc' = [fc EXCEPT ![s] = IncreaseSend(@, k)]
    BY <1>6 DEF OnWindowUpdate
  <2>2. \A t \in Stream : fc'[t].max_receive_window = fc[t].max_receive_window
    BY <2>1 DEF IncreaseSend, IInv, Typing, Controller
  <2> QED
    BY <1>6, <2>2 DEF OnWindowUpdate, PipeHeld, PipeLimit
<1>7. ASSUME HandlePong PROVE UNCHANGED <<PipeHeld, PipeLimit, accumulated>>
  BY <1>7 DEF HandlePong, PipeHeld, PipeLimit
<1>8. ASSUME NEW s \in Stream, DropStream(s) PROVE Pipe!Next
  <2>1. s \in open /\ open' = open \ {s}
    BY <1>8 DEF DropStream
  <2>2. \A t \in Stream \ {s} :
          fc'[t] = fc[t] /\ buffer'[t] = buffer[t] /\ inflight'[t] = inflight[t]
    BY <1>8 DEF DropStream, IInv, Typing
  <2>3. PipeHeld' = [PipeHeld EXCEPT ![s] = 0] /\ PipeLimit' = [PipeLimit EXCEPT ![s] = 0]
    BY <2>1, <2>2 DEF PipeHeld, PipeLimit
  <2>4. accumulated' = accumulated - (PipeLimit[s] - DEFAULT_CREDIT)
    BY <1>0, <1>8, <2>1 DEF DropStream, Released
  <2>5. Pipe!Close(s)
    BY <1>0, <2>1, <2>3, <2>4 DEF Pipe!Close
  <2> QED
    BY <2>5 DEF Pipe!Next
<1>9. CASE UNCHANGED vars
  BY <1>9 DEF vars, PipeHeld, PipeLimit
<1> QED
  BY <1>1, <1>2, <1>3, <1>4, <1>5, <1>6, <1>7, <1>8, <1>9 DEF Next

(* The windows implement the pipe: what lies between a writer and its       *)
(* reader never exceeds the window last promised, and auto-tuning never     *)
(* spends more than the connection's budget.                                *)
THEOREM SpecImplementsBoundedPipe == Spec => ImplementsBoundedPipe
<1>1. Init => Pipe!Init
  BY PipeInit
<1>2. IInv /\ [Next]_vars => [Pipe!Next]_(Pipe!vars)
  BY PipeStep
<1> QED
  BY <1>1, <1>2, Invariance, PTL DEF Spec, ImplementsBoundedPipe, Pipe!Spec
-----------------------------------------------------------------------------
(* The budget.  A sum over a set is an induction; the invariant avoids it   *)
(* by asking for some function F over the sets of streams that adds up one  *)
(* stream at a time.  Every step turns such a function into the next one.   *)
Adds(F, extra) ==
  /\ F[{}] = 0
  /\ \A T \in SUBSET Stream : \A s \in Stream \ T : F[T \cup {s}] = F[T] + extra[s]

(* What auto-tuning has added to each window. *)
Extra == [s \in Stream |-> IF s \in open THEN fc[s].max_receive_window - DEFAULT_CREDIT ELSE 0]

Accounted ==
  \E F \in [SUBSET Stream -> Nat] : Adds(F, Extra) /\ accumulated = F[open]

BInv ==
  /\ IInv
  /\ Accounted
  /\ rtt_known = FALSE => \A s \in open : fc[s].max_receive_window = DEFAULT_CREDIT
  /\ terminated \in BOOLEAN
-----------------------------------------------------------------------------
(* One summand grows. *)
LEMMA GrowSum ==
  ASSUME NEW F \in [SUBSET Stream -> Nat], NEW x \in [Stream -> Nat], Adds(F, x),
         NEW s \in Stream, NEW k \in Nat
  PROVE  \E G \in [SUBSET Stream -> Nat] :
            /\ Adds(G, [x EXCEPT ![s] = @ + k])
            /\ \A T \in SUBSET Stream : s \in T => G[T] = F[T] + k
<1> DEFINE G == [T \in SUBSET Stream |-> IF s \in T THEN F[T] + k ELSE F[T]]
           y == [x EXCEPT ![s] = @ + k]
<1>1. G \in [SUBSET Stream -> Nat]
  OBVIOUS
<1>2. G[{}] = 0
  BY DEF Adds
<1>3. ASSUME NEW T \in SUBSET Stream, NEW t \in Stream \ T PROVE G[T \cup {t}] = G[T] + y[t]
  <2>1. T \cup {t} \in SUBSET Stream /\ F[T \cup {t}] = F[T] + x[t]
    BY <1>3 DEF Adds
  <2>2. F[T] \in Nat /\ x[t] \in Nat
    OBVIOUS
  <2>3. CASE t = s
    <3>1. G[T \cup {t}] = F[T] + x[t] + k /\ G[T] = F[T] /\ y[t] = x[t] + k
      BY <1>3, <2>1, <2>3
    <3> QED
      BY <2>2, <3>1
  <2>4. CASE t # s
    <3>1. /\ y[t] = x[t] /\ G[T] = (IF s \in T THEN F[T] + k ELSE F[T])
          /\ G[T \cup {t}] = IF s \in T THEN F[T] + x[t] + k ELSE F[T] + x[t]
      BY <2>1, <2>4
    <3> QED
      BY <2>2, <3>1
  <2> QED
    BY <2>3, <2>4
<1>4. Adds(G, y)
  BY <1>2, <1>3 DEF Adds
<1>5. \A T \in SUBSET Stream : s \in T => G[T] = F[T] + k
  OBVIOUS
<1> QED
  BY <1>1, <1>4, <1>5

(* One summand goes. *)
LEMMA DropSum ==
  ASSUME NEW F \in [SUBSET Stream -> Nat], NEW x \in [Stream -> Nat], Adds(F, x),
         NEW s \in Stream
  PROVE  \E G \in [SUBSET Stream -> Nat] :
            /\ Adds(G, [x EXCEPT ![s] = 0])
            /\ \A T \in SUBSET Stream : s \notin T => G[T] = F[T]
<1> DEFINE G == [T \in SUBSET Stream |-> F[T \ {s}]]
           y == [x EXCEPT ![s] = 0]
<1>1. G \in [SUBSET Stream -> Nat]
  <2>1. \A T \in SUBSET Stream : T \ {s} \in SUBSET Stream
    OBVIOUS
  <2> QED
    BY <2>1
<1>2. G[{}] = 0
  <2>1. {} \ {s} = {} /\ {} \in SUBSET Stream
    OBVIOUS
  <2> QED
    BY <2>1 DEF Adds
<1>3. ASSUME NEW T \in SUBSET Stream, NEW t \in Stream \ T PROVE G[T \cup {t}] = G[T] + y[t]
  <2>1. T \cup {t} \in SUBSET Stream /\ G[T \cup {t}] = F[(T \cup {t}) \ {s}] /\ G[T] = F[T \ {s}]
    OBVIOUS
  <2>2. T \ {s} \in SUBSET Stream /\ F[T \ {s}] \in Nat
    OBVIOUS
  <2>3. CASE t = s
    <3>1. (T \cup {t}) \ {s} = T \ {s} /\ y[t] = 0
      BY <2>3
    <3>2. F[T \ {s}] + 0 = F[T \ {s}]
      BY <2>2
    <3> HIDE DEF G, y
    <3> QED
      BY <2>1, <3>1, <3>2
  <2>4. CASE t # s
    <3>1. y[t] = x[t] /\ t \in Stream \ (T \ {s})
      BY <2>4
    <3>2. (T \cup {t}) \ {s} = (T \ {s}) \cup {t}
      BY <2>4
    <3>3. F[(T \ {s}) \cup {t}] = F[T \ {s}] + x[t]
      BY <2>2, <3>1 DEF Adds
    <3> QED
      BY <2>1, <3>1, <3>2, <3>3
  <2> QED
    BY <2>3, <2>4
<1>4. Adds(G, y)
  BY <1>2, <1>3 DEF Adds
<1>5. \A T \in SUBSET Stream : s \notin T => G[T] = F[T]
  <2>1. \A T \in SUBSET Stream : s \notin T => T \ {s} = T
    OBVIOUS
  <2> QED
    BY <2>1
<1> QED
  BY <1>1, <1>4, <1>5

LEMMA ExtraType == IInv => Extra \in [Stream -> Nat]
<1> SUFFICES ASSUME IInv, NEW s \in open
             PROVE  s \in Stream => fc[s].max_receive_window - DEFAULT_CREDIT \in Nat
  BY DEF Extra
<1> QED
  BY FlowAssumption DEF IInv, Typing, StreamInv, Controller

(* The growth of an open window is one of the summands. *)
LEMMA PartOfSum ==
  ASSUME IInv, Accounted
  PROVE  accumulated \in Nat /\ \A s \in open : Extra[s] <= accumulated
<1>1. PICK F \in [SUBSET Stream -> Nat] : Adds(F, Extra) /\ accumulated = F[open]
  BY DEF Accounted
<1>2. open \in SUBSET Stream
  BY DEF IInv, Typing
<1>3. ASSUME NEW s \in open PROVE Extra[s] <= accumulated
  <2>1. open \ {s} \in SUBSET Stream /\ s \in Stream \ (open \ {s}) /\ (open \ {s}) \cup {s} = open
    BY <1>2
  <2>2. F[open] = F[open \ {s}] + Extra[s]
    BY <1>1, <2>1 DEF Adds
  <2>3. F[open \ {s}] \in Nat /\ Extra[s] \in Nat
    BY <2>1, ExtraType
  <2> QED
    BY <1>1, <2>2, <2>3
<1> QED
  BY <1>1, <1>2, <1>3
-----------------------------------------------------------------------------
(* A window update grows its window and the counter by the same amount.     *)
LEMMA TunedTogether ==
  ASSUME IInv, NEW s \in Stream, NEW ready \in BOOLEAN, PollRead(s, ready)
  PROVE  \E k \in Nat :
           /\ fc'[s].max_receive_window = fc[s].max_receive_window + k
           /\ accumulated' = accumulated + k
           /\ rtt_known = FALSE => k = 0
           /\ \A t \in Stream \ {s} : fc'[t] = fc[t]
<1>1. s \in open /\ fc[s] \in Controller /\ fc[s].max_receive_window \in Nat /\ accumulated \in Int
  BY DEF PollRead, IInv, Typing, Controller
<1>2. CASE ready /\ UpdateDue(fc[s], buffer[s])
  <2>1. PICK fast \in BOOLEAN :
          LET update == NextWindowUpdate(fc[s], buffer[s], accumulated, fast)
          IN  /\ fc' = [fc EXCEPT ![s] = update.fc]
              /\ accumulated' = update.accumulated
              /\ rtt_known = FALSE => fast = FALSE
    BY <1>2 DEF PollRead, Grant, IInv, Typing
  <2> DEFINE u == NextWindowUpdate(fc[s], buffer[s], accumulated, fast)
             k == u.fc.max_receive_window - fc[s].max_receive_window
  <2>2. /\ fc[s].receive_window + buffer[s] <= fc[s].max_receive_window
        /\ fc[s].max_receive_window <= U32_MAX
        /\ buffer[s] \in Nat /\ accumulated <= Budget
    BY <1>1 DEF IInv, Typing, StreamInv
  <2>3. /\ u.fc \in Controller
        /\ fc[s].max_receive_window <= u.fc.max_receive_window
        /\ u.accumulated = accumulated + k
    BY <1>1, <2>2, NextWindowUpdateFacts
  <2>4. u.fc.max_receive_window \in Nat
    BY <2>3 DEF Controller
  <2>5. rtt_known = FALSE => u.fc.max_receive_window = fc[s].max_receive_window
    BY <1>1, <2>1 DEF NextWindowUpdate, NextMax, Controller
  <2>6. fc' = [fc EXCEPT ![s] = u.fc] /\ accumulated' = u.accumulated
    BY <2>1
  <2> HIDE DEF u
  <2>7. k \in Nat /\ fc[s].max_receive_window + k = u.fc.max_receive_window
    BY <1>1, <2>3, <2>4
  <2>8. fc'[s] = u.fc /\ \A t \in Stream \ {s} : fc'[t] = fc[t]
    BY <2>6 DEF IInv, Typing
  <2>9. rtt_known = FALSE => k = 0
    BY <1>1, <2>5
  <2> QED
    BY <2>3, <2>6, <2>7, <2>8, <2>9
<1>3. CASE ~(ready /\ UpdateDue(fc[s], buffer[s]))
  <2>1. fc' = fc /\ accumulated' = accumulated
    BY <1>3 DEF PollRead
  <2>2. fc[s].max_receive_window + 0 = fc[s].max_receive_window /\ accumulated + 0 = accumulated
    BY <1>1
  <2> QED
    BY <2>1, <2>2
<1> QED
  BY <1>2, <1>3

(* A step that leaves the growth of every window alone. *)
LEMMA SameSum ==
  ASSUME Accounted, Extra' = Extra, accumulated' = accumulated, open' = open
  PROVE  Accounted'
BY DEF Accounted

LEMMA AccountedStep ==
  ASSUME IInv, Accounted, [Next]_vars
  PROVE  Accounted'
<1>1. PICK F \in [SUBSET Stream -> Nat] : Adds(F, Extra) /\ accumulated = F[open]
  BY DEF Accounted
<1>2. open \in SUBSET Stream /\ Extra \in [Stream -> Nat]
  BY ExtraType DEF IInv, Typing
<1>3. ASSUME NEW s \in Stream, OpenStream(s) PROVE Accounted'
  <2>1. s \in Stream \ open /\ open' = open \cup {s} /\ accumulated' = accumulated
    BY <1>3 DEF OpenStream
  <2>2. Extra[s] = 0
    BY <2>1 DEF Extra
  <2>3. Extra' = Extra
    <3>1. fc' = [fc EXCEPT ![s] = NewController] /\ fc \in [Stream -> Controller]
      BY <1>3 DEF OpenStream, IInv, Typing
    <3>2. NewController.max_receive_window - DEFAULT_CREDIT = 0
      BY FlowAssumption DEF NewController
    <3> QED
      BY <2>1, <3>1, <3>2 DEF Extra
  <2>4. F[open'] = F[open] + 0
    BY <1>1, <1>2, <2>1, <2>2 DEF Adds
  <2>5. F[open'] = accumulated'
    BY <1>1, <1>2, <2>1, <2>4
  <2> QED
    BY <1>1, <2>3, <2>5 DEF Accounted
<1>4. ASSUME NEW s \in Stream, NEW ready \in BOOLEAN, PollRead(s, ready) PROVE Accounted'
  <2>1. PICK k \in Nat : /\ fc'[s].max_receive_window = fc[s].max_receive_window + k
                         /\ accumulated' = accumulated + k
                         /\ \A t \in Stream \ {s} : fc'[t] = fc[t]
    BY <1>4, TunedTogether
  <2>2. s \in open /\ open' = open
    BY <1>4 DEF PollRead
  <2>3. Extra' = [Extra EXCEPT ![s] = @ + k]
    <3>1. /\ fc[s].max_receive_window \in Nat
          /\ (fc[s].max_receive_window + k) - DEFAULT_CREDIT
               = (fc[s].max_receive_window - DEFAULT_CREDIT) + k
      BY FlowAssumption DEF IInv, Typing, Controller
    <3> QED
      BY <2>1, <2>2, <3>1 DEF Extra
  <2>4. PICK G \in [SUBSET Stream -> Nat] :
          /\ Adds(G, [Extra EXCEPT ![s] = @ + k])
          /\ \A T \in SUBSET Stream : s \in T => G[T] = F[T] + k
    BY <1>1, <1>2, GrowSum
  <2>5. G[open'] = accumulated'
    BY <1>1, <1>2, <2>1, <2>2, <2>4
  <2> QED
    BY <2>3, <2>4, <2>5 DEF Accounted
<1>5. ASSUME NEW s \in Stream, DropStream(s) PROVE Accounted'
  <2>1. /\ s \in open /\ open' = open \ {s} /\ accumulated' = accumulated - Extra[s]
        /\ fc' = [fc EXCEPT ![s] = NewController]
    BY <1>5 DEF DropStream, Released, Extra
  <2>2. Extra' = [Extra EXCEPT ![s] = 0]
    BY <2>1 DEF Extra, IInv, Typing
  <2>3. PICK G \in [SUBSET Stream -> Nat] :
          /\ Adds(G, [Extra EXCEPT ![s] = 0])
          /\ \A T \in SUBSET Stream : s \notin T => G[T] = F[T]
    BY <1>1, <1>2, DropSum
  <2>4. F[open] = F[open \ {s}] + Extra[s]
    <3>1. open \ {s} \in SUBSET Stream /\ s \in Stream \ (open \ {s})
          /\ (open \ {s}) \cup {s} = open
      BY <1>2, <2>1
    <3> QED
      BY <1>1, <3>1 DEF Adds
  <2>5. open \ {s} \in SUBSET Stream /\ F[open \ {s}] \in Nat /\ Extra[s] \in Nat
    BY <1>2
  <2>6. G[open'] = accumulated'
    BY <1>1, <2>1, <2>3, <2>4, <2>5
  <2> QED
    BY <2>2, <2>3, <2>6 DEF Accounted
<1>6. ASSUME NEW s \in Stream, Write(s) \/ OnData(s) \/ OnWindowUpdate(s) PROVE Accounted'
  <2>1. open' = open /\ accumulated' = accumulated
    BY <1>6 DEF Write, OnData, OnWindowUpdate
  <2>2. \A t \in Stream : fc'[t].max_receive_window = fc[t].max_receive_window
    BY <1>6 DEF Write, OnData, OnWindowUpdate, ConsumeSend, ConsumeReceive, IncreaseSend, IInv,
                Typing, Controller
  <2> QED
    BY <2>1, <2>2, SameSum DEF Extra
<1>7. CASE HandlePong \/ (\E s \in Stream : IgnoreLeftovers(s)) \/ UNCHANGED vars
  BY <1>7, SameSum DEF HandlePong, IgnoreLeftovers, vars, Extra
<1> QED
  BY <1>3, <1>4, <1>5, <1>6, <1>7 DEF Next

(* No window grows before a round-trip time is known. *)
LEMMA FixedStep ==
  ASSUME IInv, [Next]_vars, NEW s \in open', rtt_known' = FALSE,
         rtt_known = FALSE => \A t \in open : fc[t].max_receive_window = DEFAULT_CREDIT
  PROVE  fc'[s].max_receive_window = DEFAULT_CREDIT
<1>0. Typing' /\ s \in Stream
  BY StepIInv DEF IInv, Typing
<1>1. rtt_known = FALSE
  BY DEF Next, HandlePong, OpenStream, Write, OnData, IgnoreLeftovers, PollRead, OnWindowUpdate,
         DropStream, vars
<1>2. \A t \in open : t \in Stream /\ fc[t].max_receive_window = DEFAULT_CREDIT
  BY <1>1 DEF IInv, Typing
<1>3. ASSUME NEW t \in Stream, OpenStream(t) \/ DropStream(t)
      PROVE  fc'[s].max_receive_window = DEFAULT_CREDIT
  <2>1. fc' = [fc EXCEPT ![t] = NewController] /\ NewController.max_receive_window = DEFAULT_CREDIT
    BY <1>3 DEF OpenStream, DropStream, NewController
  <2>2. s # t => s \in open
    BY <1>3 DEF OpenStream, DropStream
  <2> QED
    BY <1>0, <1>2, <2>1, <2>2 DEF IInv, Typing
<1>4. ASSUME NEW t \in Stream, NEW ready \in BOOLEAN, PollRead(t, ready)
      PROVE  fc'[s].max_receive_window = DEFAULT_CREDIT
  <2>1. s \in open /\ t \in open
    BY <1>4 DEF PollRead
  <2>2. fc'[t].max_receive_window = fc[t].max_receive_window + 0
    BY <1>1, <1>4, TunedTogether
  <2>3. \A w \in Stream \ {t} : fc'[w] = fc[w]
    BY <1>4, TunedTogether
  <2> QED
    BY <1>0, <1>2, <2>1, <2>2, <2>3, FlowAssumption
<1>5. ASSUME NEW t \in Stream, Write(t) \/ OnData(t) \/ OnWindowUpdate(t)
      PROVE  fc'[s].max_receive_window = DEFAULT_CREDIT
  <2>1. \A w \in Stream : fc'[w].max_receive_window = fc[w].max_receive_window
    BY <1>5 DEF Write, OnData, OnWindowUpdate, ConsumeSend, ConsumeReceive, IncreaseSend, IInv,
                Typing, Controller
  <2> QED
    BY <1>0, <1>2, <1>5, <2>1 DEF Write, OnData, OnWindowUpdate
<1>6. CASE HandlePong \/ (\E t \in Stream : IgnoreLeftovers(t)) \/ UNCHANGED vars
  BY <1>2, <1>6 DEF HandlePong, IgnoreLeftovers, vars
<1> QED
  BY <1>3, <1>4, <1>5, <1>6 DEF Next

LEMMA BudgetInvariance == Spec => []BInv
<1>1. Init => BInv
  <2> SUFFICES ASSUME Init PROVE BInv
    OBVIOUS
  <2>1. IInv /\ open = {} /\ accumulated = 0 /\ terminated = FALSE
    BY InitIInv DEF Init
  <2> DEFINE F == [T \in SUBSET Stream |-> 0]
  <2>2. F \in [SUBSET Stream -> Nat] /\ Adds(F, Extra) /\ accumulated = F[open]
    <3>1. \A s \in Stream : Extra[s] = 0
      BY <2>1 DEF Extra
    <3> QED
      BY <2>1, <3>1 DEF Adds
  <2> HIDE DEF F
  <2> QED
    BY <2>1, <2>2 DEF BInv, Accounted
<1>2. BInv /\ [Next]_vars => BInv'
  <2> SUFFICES ASSUME BInv, [Next]_vars PROVE BInv'
    OBVIOUS
  <2>1. IInv' /\ Accounted'
    BY StepIInv, AccountedStep DEF BInv
  <2>2. terminated' \in BOOLEAN
    BY DEF BInv, Next, HandlePong, OpenStream, Write, OnData, IgnoreLeftovers, PollRead,
           OnWindowUpdate, DropStream, vars
  <2>3. rtt_known' = FALSE => \A s \in open' : fc'[s].max_receive_window = DEFAULT_CREDIT
    BY FixedStep DEF BInv
  <2> QED
    BY <2>1, <2>2, <2>3 DEF BInv
<1> QED
  BY <1>1, <1>2, PTL DEF Spec
-----------------------------------------------------------------------------
(* Every window and counter keeps its type; in particular the counter that  *)
(* all streams of a connection share is never taken below zero by a drop.   *)
THEOREM SpecTypeOK == Spec => []TypeOK
<1>1. BInv => TypeOK
  BY PartOfSum DEF BInv, IInv, Typing, TypeOK
<1> QED
  BY <1>1, BudgetInvariance, PTL

(* The assertions of assert_invariants never fail.                          *)
THEOREM SpecControllerInvariants == Spec => []ControllerInvariants
<1>1. BInv => ControllerInvariants
  <2> SUFFICES ASSUME BInv, NEW s \in open
               PROVE  /\ buffer[s] <= fc[s].max_receive_window
                      /\ fc[s].receive_window <= fc[s].max_receive_window
                      /\ fc[s].max_receive_window - DEFAULT_CREDIT <= Budget
                      /\ fc[s].max_receive_window - DEFAULT_CREDIT <= accumulated
                      /\ ~rtt_known => fc[s].max_receive_window = DEFAULT_CREDIT
    BY DEF ControllerInvariants
  <2>1. /\ StreamInv(s) /\ buffer[s] \in Nat /\ fc[s].receive_window \in Nat
        /\ fc[s].max_receive_window \in Nat /\ rtt_known \in BOOLEAN /\ s \in Stream
        /\ accumulated <= Budget
    BY DEF BInv, IInv, Typing, Controller
  <2>2. accumulated \in Nat /\ fc[s].max_receive_window - DEFAULT_CREDIT <= accumulated
    BY <2>1, PartOfSum DEF BInv, Extra
  <2>3. buffer[s] <= fc[s].max_receive_window /\ fc[s].receive_window <= fc[s].max_receive_window
    BY <2>1 DEF StreamInv
  <2>4. fc[s].max_receive_window - DEFAULT_CREDIT <= Budget
    BY <2>1, <2>2, BudgetNat, FlowAssumption
  <2>5. ~rtt_known => fc[s].max_receive_window = DEFAULT_CREDIT
    BY <2>1 DEF BInv
  <2> QED
    BY <2>2, <2>3, <2>4, <2>5
<1> QED
  BY <1>1, BudgetInvariance, PTL

(* No checked addition of the controllers overflows: the send window takes  *)
(* all the credit on its way, and the limit a window may grow to is a usize.*)
THEOREM SpecNoOverflow == Spec => []NoOverflow
<1>1. Budget + DEFAULT_CREDIT <= USIZE_MAX
  <2>1. DEFAULT_CREDIT <= max_num_streams * DEFAULT_CREDIT
        /\ max_num_streams * DEFAULT_CREDIT \in Nat
    <3>1. max_num_streams - 1 \in Nat /\ (max_num_streams - 1) * DEFAULT_CREDIT \in Nat
      BY FlowAssumption
    <3>2. max_num_streams * DEFAULT_CREDIT = (max_num_streams - 1) * DEFAULT_CREDIT + DEFAULT_CREDIT
      BY FlowAssumption
    <3> QED
      BY <3>1, <3>2, FlowAssumption
  <2>2. CASE max_num_streams * DEFAULT_CREDIT <= USIZE_MAX
    BY <2>1, <2>2, BudgetOf, FlowAssumption
  <2>3. CASE max_num_streams * DEFAULT_CREDIT > USIZE_MAX
    BY <2>3, BudgetOf, FlowAssumption
  <2> QED
    BY <2>1, <2>2, <2>3, FlowAssumption
<1>2. BInv => NoOverflow
  <2> SUFFICES ASSUME BInv, NEW s \in open
               PROVE  /\ fc[s].send_window + granted[s] <= U32_MAX
                      /\ ConnectionLimit(fc[s], accumulated) <= USIZE_MAX
    BY DEF NoOverflow
  <2>1. /\ StreamInv(s) /\ s \in Stream
        /\ buffer[s] \in Nat /\ inflight[s] \in Nat /\ granted[s] \in Nat
        /\ fc[s].receive_window \in Nat /\ fc[s].send_window \in Nat
        /\ fc[s].max_receive_window \in Nat /\ accumulated <= Budget
    BY DEF BInv, IInv, Typing, Controller
  <2>2. accumulated \in Nat /\ fc[s].max_receive_window - DEFAULT_CREDIT <= accumulated
    BY <2>1, PartOfSum DEF BInv, Extra
  <2>3. fc[s].send_window + granted[s] <= U32_MAX
    BY <2>1, FlowAssumption DEF StreamInv
  <2>4. ConnectionLimit(fc[s], accumulated) = fc[s].max_receive_window + (Budget - accumulated)
    BY <2>1, <2>2, BudgetNat DEF ConnectionLimit, SaturatingSub
  <2>5. ConnectionLimit(fc[s], accumulated) <= USIZE_MAX
    BY <1>1, <2>1, <2>2, <2>4, BudgetNat, FlowAssumption
  <2> QED
    BY <2>3, <2>5
<1> QED
  BY <1>2, BudgetInvariance, PTL
-----------------------------------------------------------------------------
(* The budget as a sum.  A folded sum is a function chosen by its recursive *)
(* equation.  Any H that adds up one stream at a time satisfies the         *)
(* equation, and no other function does: the sets on which two solutions    *)
(* differ would have a smallest one.                                        *)
LEMMA SumOfWindows ==
  ASSUME IsFiniteSet(open), NEW H \in [SUBSET open -> Nat], H[{}] = 0,
         \A T \in SUBSET open : \A s \in open \ T :
           H[T \cup {s}] = H[T] + fc[s].max_receive_window,
         \A s \in open : fc[s].max_receive_window \in Nat
  PROVE  LET Window(s) == fc[s].max_receive_window IN MapThenSumSet(Window, open) = H[open]
<1> DEFINE Pick(T) == CHOOSE x \in T : TRUE
           Unfold(g) == [T \in SUBSET open |->
                         IF T = {} THEN 0
                         ELSE fc[Pick(T)].max_receive_window + g[T \ {Pick(T)}]]
<1>1. ASSUME NEW T \in SUBSET open, T # {}
      PROVE  /\ Pick(T) \in T /\ T \ {Pick(T)} \in SUBSET open
             /\ H[T] = fc[Pick(T)].max_receive_window + H[T \ {Pick(T)}]
  <2>1. Pick(T) \in T
    BY <1>1
  <2> HIDE DEF Pick
  <2>2. T \ {Pick(T)} \in SUBSET open /\ Pick(T) \in open \ (T \ {Pick(T)})
        /\ (T \ {Pick(T)}) \cup {Pick(T)} = T
    BY <2>1
  <2>3. H[T] = H[T \ {Pick(T)}] + fc[Pick(T)].max_receive_window
    BY <2>2
  <2>4. H[T \ {Pick(T)}] \in Nat /\ fc[Pick(T)].max_receive_window \in Nat
    BY <2>1, <2>2
  <2> QED
    BY <2>1, <2>2, <2>3, <2>4
<1> HIDE DEF Pick
<1>2. H = Unfold(H)
  BY <1>1
<1>3. ASSUME NEW g, g = Unfold(g) PROVE g = H
  <2> DEFINE Bad == {T \in SUBSET open : g[T] # H[T]}
  <2>1. SUFFICES ASSUME Bad # {} PROVE FALSE
    <3>1. \A T \in SUBSET open : g[T] = H[T]
      BY <2>1
    <3>2. g = [T \in SUBSET open |-> g[T]]
      BY <1>3
    <3>3. H = [T \in SUBSET open |-> H[T]]
      OBVIOUS
    <3> HIDE DEF Unfold
    <3> QED
      BY <3>1, <3>2, <3>3
  <2>2. IsWellFoundedOn(StrictSubsetOrdering(open), SUBSET open)
    BY FS_StrictSubsetOrderingWellFounded, FS_FiniteSubsetsOfFinite
  <2>3. PICK T \in Bad : \A U \in Bad : <<U, T>> \notin StrictSubsetOrdering(open)
    <3>1. Bad \subseteq SUBSET open
      OBVIOUS
    <3> HIDE DEF Bad
    <3> QED
      BY <2>1, <2>2, <3>1, WFMin
  <2>4. T # {}
    BY <1>3
  <2>5. Pick(T) \in T /\ T \ {Pick(T)} \in SUBSET open
        /\ H[T] = fc[Pick(T)].max_receive_window + H[T \ {Pick(T)}]
    BY <1>1, <2>4
  <2>6. T \ {Pick(T)} \notin Bad
    <3>1. <<T \ {Pick(T)}, T>> \in StrictSubsetOrdering(open)
      BY <2>5 DEF StrictSubsetOrdering
    <3> QED
      BY <2>3, <3>1
  <2>7. g[T] = fc[Pick(T)].max_receive_window + g[T \ {Pick(T)}]
    BY <1>3, <2>4
  <2> QED
    BY <2>5, <2>6, <2>7
<1>4. H = CHOOSE g : g = Unfold(g)
  BY <1>2, <1>3, Zenon
<1> QED
  <2>1. LET Window(s) == fc[s].max_receive_window
        IN  MapThenSumSet(Window, open) = (CHOOSE g : g = Unfold(g))[open]
    BY Zenon DEF MapThenSumSet, MapThenFoldSet, Pick
  <2> QED
    BY <1>4, <2>1

(* make_shared: the streams are counted, and no more than max_num_streams.  *)
LEMMA CountedInvariance == Spec => [](IsFiniteSet(open) /\ Cardinality(open) <= max_num_streams)
<1> DEFINE Few == IsFiniteSet(open) /\ Cardinality(open) <= max_num_streams
<1>1. Init => Few
  BY FS_EmptySet, FlowAssumption DEF Init
<1>2. Few /\ [Next]_vars => Few'
  <2> SUFFICES ASSUME Few, [Next]_vars PROVE Few'
    OBVIOUS
  <2>0. Cardinality(open) \in Nat
    BY FS_CardinalityType
  <2>1. CASE open' = open
    BY <2>1
  <2>2. ASSUME NEW s \in Stream, OpenStream(s) PROVE Few'
    <3>1. open' = open \cup {s} /\ Cardinality(open) < max_num_streams
      BY <2>2 DEF OpenStream
    <3>2. IsFiniteSet(open \cup {s})
          /\ Cardinality(open \cup {s}) \in {Cardinality(open), Cardinality(open) + 1}
      BY FS_AddElement
    <3> QED
      BY <2>0, <3>1, <3>2, FlowAssumption
  <2>3. ASSUME NEW s \in Stream, DropStream(s) PROVE Few'
    <3>1. open' = open \ {s}
      BY <2>3 DEF DropStream
    <3>2. IsFiniteSet(open \ {s})
          /\ Cardinality(open \ {s}) \in {Cardinality(open), Cardinality(open) - 1}
      BY FS_RemoveElement
    <3> QED
      BY <2>0, <3>1, <3>2, FlowAssumption
  <2> QED
    BY <2>1, <2>2, <2>3 DEF Next, HandlePong, Write, OnData, IgnoreLeftovers, PollRead,
                            OnWindowUpdate, vars
<1> QED
  BY <1>1, <1>2, PTL DEF Spec

(* flow_control.rs:110: the windows of the open streams together are the    *)
(* default credit of each and what the shared counter says they have grown  *)
(* by, and never exceed the window configured for the connection.           *)
THEOREM SpecConnectionWindowBound == Spec => []ConnectionWindowBound
<1>1. BInv /\ IsFiniteSet(open) /\ Cardinality(open) <= max_num_streams => ConnectionWindowBound
  <2> SUFFICES ASSUME BInv, IsFiniteSet(open), Cardinality(open) <= max_num_streams
               PROVE  ConnectionWindowBound
    OBVIOUS
  <2>1. PICK F \in [SUBSET Stream -> Nat] : Adds(F, Extra) /\ accumulated = F[open]
    BY DEF BInv, Accounted
  <2>2. open \in SUBSET Stream /\ accumulated <= Budget
        /\ \A s \in open : fc[s].max_receive_window \in Nat
    BY DEF BInv, IInv, Typing, Controller
  <2>3. \A T \in SUBSET open : IsFiniteSet(T) /\ Cardinality(T) \in Nat
    BY FS_Subset, FS_CardinalityType
  <2>4. \A T \in SUBSET open : Cardinality(T) * DEFAULT_CREDIT \in Nat
    BY <2>3, FlowAssumption
  <2> DEFINE H == [T \in SUBSET open |-> F[T] + Cardinality(T) * DEFAULT_CREDIT]
  <2>5. H \in [SUBSET open -> Nat]
    <3>1. \A T \in SUBSET open : F[T] \in Nat
      BY <2>2
    <3> QED
      BY <2>4, <3>1
  <2>6. H[{}] = 0
    BY <2>1, FS_EmptySet, FlowAssumption DEF Adds
  <2>7. ASSUME NEW T \in SUBSET open, NEW s \in open \ T
        PROVE  H[T \cup {s}] = H[T] + fc[s].max_receive_window
    <3>1. T \cup {s} \in SUBSET open /\ T \in SUBSET Stream /\ s \in Stream \ T
      BY <2>2
    <3>2. F[T \cup {s}] = F[T] + Extra[s] /\ Extra[s] = fc[s].max_receive_window - DEFAULT_CREDIT
      BY <2>1, <3>1 DEF Adds, Extra
    <3>3. Cardinality(T \cup {s}) = Cardinality(T) + 1
      BY <2>3, FS_AddElement
    <3>4. (Cardinality(T) + 1) * DEFAULT_CREDIT = Cardinality(T) * DEFAULT_CREDIT + DEFAULT_CREDIT
      BY <2>3, FlowAssumption
    <3>5. F[T] \in Nat /\ fc[s].max_receive_window \in Nat /\ Cardinality(T) * DEFAULT_CREDIT \in Nat
      BY <2>2, <2>4, <3>1
    <3>6. H[T \cup {s}] = F[T \cup {s}] + Cardinality(T \cup {s}) * DEFAULT_CREDIT
          /\ H[T] = F[T] + Cardinality(T) * DEFAULT_CREDIT
      BY <3>1
    <3> HIDE DEF H
    <3> QED
      BY <3>2, <3>3, <3>4, <3>5, <3>6, FlowAssumption
  <2>8. H[open] = accumulated + Cardinality(open) * DEFAULT_CREDIT
    BY <2>1
  <2>9. ASSUME max_num_streams * DEFAULT_CREDIT <= USIZE_MAX
        PROVE  accumulated + Cardinality(open) * DEFAULT_CREDIT <= max_connection_receive_window
    <3>1. Cardinality(open) * DEFAULT_CREDIT <= max_num_streams * DEFAULT_CREDIT
          /\ Cardinality(open) * DEFAULT_CREDIT \in Nat /\ max_num_streams * DEFAULT_CREDIT \in Nat
      BY <2>3, FlowAssumption
    <3>2. Budget = max_connection_receive_window - max_num_streams * DEFAULT_CREDIT
      BY <2>9, BudgetOf
    <3>3. accumulated \in Nat
      BY PartOfSum DEF BInv
    <3> QED
      BY <2>2, <3>1, <3>2, <3>3, FlowAssumption
  <2> HIDE DEF H
  <2>10. LET Window(s) == fc[s].max_receive_window IN MapThenSumSet(Window, open) = H[open]
    BY <2>2, <2>5, <2>6, <2>7, SumOfWindows
  <2> QED
    BY <2>8, <2>9, <2>10, Zenon DEF ConnectionWindowBound
<1> QED
  BY <1>1, BudgetInvariance, CountedInvariance, PTL
=============================================================================
