------------------------- MODULE ControllerProcess --------------------------
(***************************************************************************)
(* The controller program, samples/commissioning/controller/main.go.  Its  *)
(* main goroutine calls StartPASE once, while another goroutine is already *)
(* in TransportManager.Start and hands the Commissioner whatever reaches   *)
(* the port; nothing orders the two.  After a crash the program comes back *)
(* on the same port, where answers to its earlier life may be waiting.     *)
(* A user whose attempt has died has StartPASE called again.               *)
(*                                                                         *)
(* StartPASE is taken assignment by assignment.  A handler is one step: it *)
(* has refused by the time it could notice that StartPASE is under way.    *)
(* Reading a slice while it is assigned may also end the program, which is *)
(* the fault "controller restart".                                         *)
(***************************************************************************)
EXTENDS PASE, Sequences

VARIABLES
    at,     \* the statement of StartPASE each main goroutine is at
    frame,  \* its local variable: the frame that buildFrame returned
    before  \* history: the Commissioner as StartPASE found it

processVars == <<paseVars, at, frame, before>>

\* Mutant: the request leaves before State says so.
SendBeforeState ==
    <<"Passcode", "Random", "SessionID", "buildFrame", "RequestPayload", "send", "State">>

\* The statements of StartPASE, in their order.
Statements ==
    <<"Passcode", "Random", "SessionID", "buildFrame", "RequestPayload", "State", "send">>

Sending == CHOOSE i \in DOMAIN Statements : Statements[i] = "send"

ProcessInit ==
    /\ PASEInit
    /\ at = [c \in Commissioners |-> 1]
    /\ frame = [c \in Commissioners |-> Nil]
    /\ before = commissioner

-----------------------------------------------------------------------------
\* Statement name of StartPASE is next, and the goroutine goes on to the one
\* after it.
Reaches(c, name) ==
    /\ at[c] \in DOMAIN Statements
    /\ Statements[at[c]] = name
    /\ at' = [at EXCEPT ![c] = @ + 1]

\* An assignment to fields of the Commissioner.
Assign(c, fields) ==
    /\ commissioner' = [commissioner EXCEPT ![c] = fields]
    /\ UNCHANGED <<sessions, net, draws, faults, calls, commissionee, computed, confirmed>>

Passcodes(c) ==
    /\ Reaches(c, "Passcode")
    /\ \E passcode \in Passcode :
           Assign(c, [commissioner[c] EXCEPT !.Passcode = passcode])
    /\ UNCHANGED frame

\* The draw is counted when the request is sent: until then nobody else has
\* seen what was drawn.
Randoms(c) ==
    /\ Reaches(c, "Random")
    /\ Assign(c, [commissioner[c] EXCEPT !.Random = Fresh(c)])
    /\ UNCHANGED frame

SessionIDs(c) ==
    /\ Reaches(c, "SessionID")
    /\ Assign(c, [commissioner[c] EXCEPT !.SessionID = IF @ = 0 THEN InitiatorID ELSE @])
    /\ UNCHANGED frame

BuildsFrame(c) ==
    LET req == [InitiatorRandom |-> commissioner[c].Random,
                InitiatorSessionID |-> commissioner[c].SessionID,
                HasPBKDFParameters |-> FALSE]
    IN  /\ Reaches(c, "buildFrame")
        /\ \E ctr \in bumpCounter(commissioner[c].MessageCounter) :
               /\ Assign(c, [commissioner[c] EXCEPT !.MessageCounter = ctr])
               /\ frame' = [frame EXCEPT ![c] =
                      Frame("PBKDFParamRequest", c, Device, ctr, req)]

RequestPayloads(c) ==
    /\ Reaches(c, "RequestPayload")
    /\ Assign(c, [commissioner[c] EXCEPT !.RequestPayload = frame[c].Payload])
    /\ UNCHANGED frame

States(c) ==
    /\ Reaches(c, "State")
    /\ Assign(c, [commissioner[c] EXCEPT !.State = "PBKDFParamResponse"])
    /\ UNCHANGED frame

Sends(c) ==
    /\ Reaches(c, "send")
    /\ calls < MaxCalls
    /\ calls' = calls + 1
    /\ Draw(c)
    /\ net' = net \cup {frame[c]}
    /\ UNCHANGED <<sessions, faults, commissioner, commissionee, computed, confirmed, frame>>

MainGoroutine(c) ==
    /\ \/ Passcodes(c) \/ Randoms(c) \/ SessionIDs(c) \/ BuildsFrame(c)
       \/ RequestPayloads(c) \/ States(c) \/ Sends(c)
    /\ UNCHANGED before

\* The user has StartPASE called again when an attempt has died: it is not
\* Complete, and no frame of it is in flight any more.
Retry(c) ==
    /\ at[c] > Sending /\ calls < MaxCalls
    /\ commissioner[c].State # "Complete"
    /\ net = {}
    /\ at' = [at EXCEPT ![c] = 1]
    /\ before' = [before EXCEPT ![c] = commissioner[c]]
    /\ UNCHANGED <<paseVars, frame>>

\* The program starts over.
ProcessRestarts(c) ==
    /\ CommissionerRestarts(c)
    /\ at' = [at EXCEPT ![c] = 1]
    /\ frame' = [frame EXCEPT ![c] = Nil]
    /\ before' = [before EXCEPT ![c] = NewCommissioner]

\* What the receive goroutines, the device and the network do.
Others ==
    /\ Receives \/ (\E f \in net : NetworkLoses(f)) \/ DeviceRestarts
    /\ UNCHANGED <<at, frame, before>>

ProcessNext ==
    \/ \E c \in Commissioners : MainGoroutine(c) \/ Retry(c) \/ ProcessRestarts(c)
    \/ Others

\* Goroutines run, frames that are neither lost nor held back are handled (the
\* read loop of TransportManager.Start), and the user does not give up.
ProcessSpec ==
    /\ ProcessInit
    /\ [][ProcessNext]_processVars
    /\ \A c \in Commissioners : WF_processVars(MainGoroutine(c)) /\ WF_processVars(Retry(c))
    /\ WF_processVars(Receives /\ UNCHANGED <<at, frame, before>>)

-----------------------------------------------------------------------------
(* Properties *)

\* The Commissioner as StartPASE found it until the request has left.
whole == [c \in Commissioners |->
             IF at[c] <= Sending THEN before[c] ELSE commissioner[c]]

Atomic == INSTANCE PASE WITH commissioner <- whole

\* StartPASE is as good as one step, the way module Commissioner has it: what
\* the receive goroutine does meanwhile it would have done to the Commissioner
\* that StartPASE found, and everything StartPASE assigns is in place when the first
\* answer can arrive.  No assignment of StartPASE lands on top of a handler's.
StartIsAtomic == Atomic!PASESpec

\* After finitely many losses, duplicates and restarts of either side, a
\* controller that tries again reaches StateComplete for good: no leftover of a
\* dead attempt (a used-up prover, a stale verifier or transcript on the
\* device) blocks the next one.
EventuallyComplete ==
    <>[](\A c \in Commissioners : commissioner[c].State = "Complete")

\* If nothing goes wrong both sides end up Complete: the handshake needs
\* nothing but the delivery of its five messages.
FaultFreeCompletes ==
    <>(\/ faults > 0
       \/ /\ commissionee.State = "Complete"
          /\ \A c \in Commissioners : commissioner[c].State = "Complete")
=============================================================================
