------------------------------ MODULE UdpLoop ------------------------------
(***************************************************************************)
(* DNS over UDP: run_udp_dns in src/src/main.rs.  One loop receives,       *)
(* answers and sends, so that a question that waits for the lock of the    *)
(* store makes all the others wait in the buffer of the socket, and what   *)
(* finds the buffer full is lost.                                          *)
(***************************************************************************)
EXTENDS Integers, Sequences, SequencesExt

CONSTANTS
  Datagram,    \* what clients send; a datagram is sent again once it is dealt with
  Unanswered,  \* those that get no answer: no queries, or not DNS at all
  Stateless,   \* those that are refused before the store is asked
  Room,        \* of the socket's buffer
  Others       \* bound on the tasks that use the store at once

ASSUME UdpAssumption ==
  /\ Unanswered \subseteq Datagram /\ Stateless \subseteq Datagram
  /\ Room \in Nat \ {0} /\ Others \in Nat

VARIABLES
  buffer,  \* the datagrams in the buffer
  turn,    \* the loop: "receive", "handle", "wait", "send" or "ended"
  src,     \* the datagram the loop deals with
  ahead,   \* the tasks that hold the lock or wait for it before the loop
  behind   \* those that came later

udpVars == <<buffer, turn, src, ahead, behind>>

UdpInit ==
  /\ buffer = <<>>
  /\ turn = "receive"
  /\ src \in Datagram
  /\ ahead = 0 /\ behind = 0

-----------------------------------------------------------------------------
(* What is sent into a full buffer is lost.                                *)
Send(d) ==
  /\ ~Contains(buffer, d)
  /\ turn = "receive" \/ src # d
  /\ buffer' = IF Len(buffer) < Room THEN Append(buffer, d) ELSE buffer
  /\ UNCHANGED <<turn, src, ahead, behind>>

RecvFrom ==
  /\ turn = "receive" /\ buffer # <<>>
  /\ src' = Head(buffer) /\ buffer' = Tail(buffer)
  /\ turn' = "handle"
  /\ UNCHANGED <<ahead, behind>>

(* Defect: an error ends the loop.                                         *)
RecvErrorEnds ==
  /\ turn = "receive"
  /\ turn' = "ended"
  /\ UNCHANGED <<buffer, src, ahead, behind>>

(* An error leaves the loop where it was.                                  *)
RecvError ==
  /\ turn = "receive"
  /\ UNCHANGED udpVars

(* handle_udp up to the lock, which is given in the order of the requests. *)
HandleUdp ==
  /\ turn = "handle"
  /\ turn' = CASE src \in Unanswered -> "receive"
               [] src \in Stateless -> "send"
               [] OTHER -> "wait"
  /\ ahead' = ahead + behind /\ behind' = 0
  /\ UNCHANGED <<buffer, src>>

TakeLock ==
  /\ turn = "wait" /\ ahead = 0
  /\ turn' = "send"
  /\ UNCHANGED <<buffer, src, ahead, behind>>

(* Whether it works or not.                                                *)
SendTo ==
  /\ turn = "send"
  /\ turn' = "receive"
  /\ UNCHANGED <<buffer, src, ahead, behind>>

(* HTTP handlers and TCP questions come for the lock, and leave it.        *)
OtherComes ==
  /\ ahead + behind < Others
  /\ behind' = behind + 1
  /\ UNCHANGED <<buffer, turn, src, ahead>>

OtherLeaves ==
  /\ \/ ahead > 0 /\ ahead' = ahead - 1 /\ UNCHANGED behind
     \/ ahead = 0 /\ behind > 0 /\ turn # "wait" /\ behind' = behind - 1 /\ UNCHANGED ahead
  /\ UNCHANGED <<buffer, turn, src>>

Loop == RecvFrom \/ HandleUdp \/ TakeLock \/ SendTo

UdpNext ==
  \/ \E d \in Datagram : Send(d)
  \/ Loop \/ RecvError
  \/ OtherComes \/ OtherLeaves

(* The loop is polled, and nobody keeps the lock (CallsComplete).          *)
UdpFairness == WF_udpVars(Loop) /\ WF_udpVars(OtherLeaves)

-----------------------------------------------------------------------------
(* Whatever is in the buffer is dealt with, though the store is in use     *)
(* again and again and the loop waits for it in the middle.                *)
BufferedHandled ==
  \A d \in Datagram : Contains(buffer, d) ~> turn = "handle" /\ src = d
=============================================================================
