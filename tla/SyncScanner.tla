---------------------------- MODULE SyncScanner ----------------------------
(***************************************************************************)
(* SyncSickSafetyScanner::receive: datagrams are read one at a time, each  *)
(* with UDPClient::receive and the timeout the user gave, and added to the *)
(* merger until one of them completes a telegram.  An exception leaves the *)
(* loop.                                                                   *)
(*                                                                         *)
(* DeadlineSocket models UDPClient::receive.  Whether a datagram completes *)
(* its telegram is left open here: the network may have lost any of the    *)
(* others (see ScanDataStream).                                            *)
(***************************************************************************)
EXTENDS DeadlineSocket

ASSUME SyncScannerAssumption == ~ Reopens

VARIABLES
  receiving,  \* the user is in SyncSickSafetyScanner::receive
  entered,    \* history: when the newest call began, and its timeout
  result,     \* of the newest call: "none", "data", "timeout" or "error"
  added,      \* history: the number of datagrams added to the merger
  timedOut    \* history: some call has thrown timeout_error

scannerVars == <<receiving, entered, result, added, timedOut>>
syncVars == <<vars, scannerVars>>

SyncTypeOK ==
  /\ TypeOK
  /\ receiving \in BOOLEAN
  /\ entered \in [at : Nat, timeout : Timeouts \cup {0}]
  /\ result \in {"none", "data", "timeout", "error"}
  /\ added \in 0 .. MaxAnswers
  /\ timedOut \in BOOLEAN

SyncInit ==
  /\ Init
  /\ receiving = FALSE
  /\ entered = [at |-> 0, timeout |-> 0]
  /\ result = "none"
  /\ added = 0
  /\ timedOut = FALSE

-----------------------------------------------------------------------------

\* The user calls receive.  The merger is never complete here: whoever
\* completed a packet has taken it.
ReceiveData(timeout) ==
  /\ ~ receiving
  /\ now + timeout <= MaxTime
  /\ receiving' = TRUE
  /\ entered' = [at |-> now, timeout |-> timeout]
  /\ result' = "none"
  /\ Receive(timeout)
  /\ UNCHANGED <<added, timedOut>>

\* The next round of the loop reads the next datagram, with the same timeout.
ReceiveNext ==
  /\ receiving
  /\ now + entered.timeout <= MaxTime
  /\ Receive(entered.timeout)
  /\ UNCHANGED scannerVars

\* Mutant of AddDatagram: an incomplete telegram's datagram is dropped.
AddDatagramIfComplete ==
  /\ Return
  /\ ec = "success"
  /\ \/ receiving' = FALSE /\ result' = "data" /\ added' = added + 1
     \/ UNCHANGED <<receiving, result, added>>
  /\ UNCHANGED <<entered, timedOut>>

\* UDPClient::receive returns a datagram, which is added to the merger.  If it
\* completes a telegram the call returns the data.
AddDatagram ==
  /\ Return
  /\ ec = "success"
  /\ added' = added + 1
  /\ \/ receiving' = FALSE /\ result' = "data"
     \/ UNCHANGED <<receiving, result>>
  /\ UNCHANGED <<entered, timedOut>>

\* UDPClient::receive throws, and its exception leaves the loop.
Throw ==
  /\ Return
  /\ ec # "success"
  /\ receiving' = FALSE
  /\ result' = IF ec = "aborted" THEN "timeout" ELSE "error"
  /\ timedOut' = (timedOut \/ ec = "aborted")
  /\ UNCHANGED <<entered, added>>

\* The steps of the socket, the timer, the network and the clock.
SocketStep ==
  /\ \/ RunDeadline
     \/ RunHandler
     \/ WaitExpires
     \/ OperationCompletes
     \/ Arrive
     \/ Tick
  /\ UNCHANGED scannerVars

SyncNext ==
  \/ \E timeout \in Timeouts : ReceiveData(timeout)
  \/ ReceiveNext
  \/ AddDatagram
  \/ Throw
  \/ SocketStep

SyncSpec == SyncInit /\ [][SyncNext]_syncVars

-----------------------------------------------------------------------------
(* Properties. *)

\* A call throws timeout_error only when its whole timeout has passed, however
\* many datagrams it has read and whatever handlers of earlier deadlines were
\* still queued.
TimeoutErrorIsHonest == result = "timeout" => now >= entered.at + entered.timeout

\* No datagram the socket has accepted is lost on its way to the merger, over
\* any number of rounds and calls, until the socket is closed: it is still in
\* the socket, on its way through a handler, or added.
EveryDatagramIsAdded ==
  LET underway == \/ Queued("success") # {}
                  \/ calling /\ ec = "success"
  IN socket = "open" => arrived = added + answers + (IF underway THEN 1 ELSE 0)

\* The first timeout is the end of the scanner: it closes the socket, and no
\* later call returns data, whatever the sensor sends.
DeafAfterTimeout == timedOut => result # "data"

\* "Throws an exception if the timeout is exceeded": no deadline that the call
\* sets is later than its own timeout allows.
DeadlineOfTheCall ==
  receiving /\ calling /\ expires # Infinity
    => expires <= entered.at + entered.timeout
=============================================================================
