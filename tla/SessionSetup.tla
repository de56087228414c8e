---------------------------- MODULE SessionSetup ----------------------------
(***************************************************************************)
(* Setting a media session up and taking it down, src/session.rs: which    *)
(* UDP ports allocate_port and start_internal bind, in which order, who    *)
(* holds the two sockets afterwards and when the last of them lets go.     *)
(*                                                                         *)
(* Sessions are set up concurrently, and other processes bind ports too.   *)
(* A socket is closed when its last holder drops it: the RTP socket is     *)
(* held by the future that starts the session, then by the session and by  *)
(* its TX and RX threads; the RTCP socket by that future, then by the RTCP *)
(* task.  Codecs, keys and devices matter for whether creating them fails. *)
(***************************************************************************)
EXTENDS Integers

CONSTANTS
    Sessions,   \* sessions, each set up once
    MaxPort,    \* the highest port, 65535; port 0 asks for any
    Free,       \* owner of a port that is not bound
    Other       \* owner of a port bound by another process

ASSUME SetupAssumption ==
    /\ MaxPort \in Nat /\ MaxPort % 2 = 1
    /\ {Free, Other} \cap Sessions = {} /\ Free # Other

Port == 1 .. MaxPort
RtpHolders == {"start", "session", "tx", "rx"}
RtcpHolders == {"start", "rtcp"}

VARIABLES
    owner,    \* the operating system's table: port -> who has bound it
    stage,    \* session -> how far it is
    asked,    \* session -> local_rtp_port, 0 for any
    rtp,      \* session -> the port of its RTP socket, 0 when none
    rtcp,     \* session -> the port of its RTCP socket, 0 when none
    holders,  \* session -> who holds its sockets
    live      \* session -> its running flag

setupVars == <<owner, stage, asked, rtp, rtcp, holders, live>>

SetupInit ==
    /\ owner = [p \in Port |-> Free]
    /\ stage = [s \in Sessions |-> "new"]
    /\ asked = [s \in Sessions |-> 0]
    /\ rtp = [s \in Sessions |-> 0]
    /\ rtcp = [s \in Sessions |-> 0]
    /\ holders = [s \in Sessions |-> {}]
    /\ live = [s \in Sessions |-> FALSE]

Goes(s, next) == stage' = [stage EXCEPT ![s] = next]

\* Ports a bind can give: the one asked for, or any for port 0.
Bindable(port) == {p \in Port : owner[p] = Free /\ (port = 0 \/ p = port)}

\* The sockets of s are closed but for those that one of left still holds.
Drops(s, left) ==
    /\ holders' = [holders EXCEPT ![s] = left]
    /\ owner' = [p \in Port |->
                    IF owner[p] # s THEN owner[p]
                    ELSE IF p = rtp[s] /\ left \cap RtpHolders # {} THEN s
                    ELSE IF p = rtcp[s] /\ left \cap RtcpHolders # {} THEN s
                    ELSE Free]

-----------------------------------------------------------------------------
(* allocate_port *)

\* The RTP socket is bound to port 0, once more after every port that will
\* not do; without a free port an error is returned.
AllocateRtp(s) ==
    /\ stage[s] \in {"new", "retry"}
    /\ \/ /\ Bindable(0) = {}
          /\ Goes(s, "failed")
          /\ UNCHANGED <<owner, rtp, holders>>
       \/ /\ \E p \in Bindable(0) :
                /\ owner' = [owner EXCEPT ![p] = s]
                /\ rtp' = [rtp EXCEPT ![s] = p]
          /\ holders' = [holders EXCEPT ![s] = {"start"}]
          /\ Goes(s, "allocating")
    /\ UNCHANGED <<asked, rtcp, live>>

\* Odd, or the next port is taken: both are dropped and it starts over.
AllocateFails(s) ==
    /\ stage[s] = "allocating"
    /\ rtp[s] % 2 # 0 \/ Bindable(rtp[s] + 1) = {}
    /\ Drops(s, {})
    /\ Goes(s, "retry")
    /\ UNCHANGED <<asked, rtp, rtcp, live>>

AllocateRtcp(s) ==
    /\ stage[s] = "allocating"
    /\ rtp[s] % 2 = 0
    /\ \E p \in Bindable(rtp[s] + 1) :
          /\ owner' = [owner EXCEPT ![p] = s]
          /\ rtcp' = [rtcp EXCEPT ![s] = p]
    /\ Goes(s, "allocated")
    /\ UNCHANGED <<asked, rtp, holders, live>>

\* Both are dropped before the port is returned, to be bound again by start.
AllocateReturns(s) ==
    /\ stage[s] = "allocated"
    /\ Drops(s, {})
    /\ Goes(s, "ready")
    /\ UNCHANGED <<asked, rtp, rtcp, live>>

allocate_port(s) ==
    AllocateRtp(s) \/ AllocateFails(s) \/ AllocateRtcp(s) \/ AllocateReturns(s)

-----------------------------------------------------------------------------
(* start_internal *)

\* One of the start functions is called, with the allocated port or another.
Start(s) ==
    /\ stage[s] \in {"new", "ready"}
    /\ \E port \in IF stage[s] = "ready" THEN {rtp[s]} ELSE {0} \cup Port :
          asked' = [asked EXCEPT ![s] = port]
    /\ rtp' = [rtp EXCEPT ![s] = 0]
    /\ rtcp' = [rtcp EXCEPT ![s] = 0]
    /\ holders' = [holders EXCEPT ![s] = {"start"}]
    /\ Goes(s, "start")
    /\ UNCHANGED <<owner, live>>

\* An error is returned and everything start_internal holds is dropped.
StartFails(s) ==
    /\ Drops(s, holders[s] \ {"start"})
    /\ Goes(s, "failed")
    /\ UNCHANGED <<asked, rtp, rtcp, live>>

BindRtp(s) ==
    /\ stage[s] = "start"
    /\ \/ Bindable(asked[s]) = {} /\ StartFails(s)
       \/ /\ \E p \in Bindable(asked[s]) :
                /\ owner' = [owner EXCEPT ![p] = s]
                /\ rtp' = [rtp EXCEPT ![s] = p]
          /\ Goes(s, "rtp bound")
          /\ UNCHANGED <<asked, rtcp, holders, live>>

\* A mutant: the audio threads are started before the RTCP port is bound.
ThreadsFirst(s) ==
    /\ stage[s] = "rtp bound"
    /\ Goes(s, "codec created")
    /\ holders' = [holders EXCEPT ![s] = @ \cup {"tx", "rx"}]
    /\ live' = [live EXCEPT ![s] = TRUE]
    /\ UNCHANGED <<owner, asked, rtp, rtcp>>

\* create_encoder and create_decoder, either of which may fail.
CreateCodec(s) ==
    /\ stage[s] = "rtp bound"
    /\ \/ StartFails(s)
       \/ Goes(s, "codec created") /\ UNCHANGED <<owner, asked, rtp, rtcp, holders, live>>

\* local_rtp_port + 1, a u16: 0 after the highest, and 1 when any was asked.
RtcpPort(s) == (asked[s] + 1) % (MaxPort + 1)

\* The last thing that can fail; then the threads and the task are spawned.
BindRtcp(s) ==
    /\ stage[s] = "codec created"
    /\ \/ Bindable(RtcpPort(s)) = {} /\ StartFails(s)
       \/ /\ \E p \in Bindable(RtcpPort(s)) :
                /\ owner' = [owner EXCEPT ![p] = s]
                /\ rtcp' = [rtcp EXCEPT ![s] = p]
          /\ holders' = [holders EXCEPT ![s] = {"session", "tx", "rx", "rtcp"}]
          /\ live' = [live EXCEPT ![s] = TRUE]
          /\ Goes(s, "started")
          /\ UNCHANGED <<asked, rtp>>

start_internal(s) == BindRtp(s) \/ CreateCodec(s) \/ BindRtcp(s)

-----------------------------------------------------------------------------
(* Taking down *)

\* stop, which the application may call before it drops the session.
StopSession(s) ==
    /\ stage[s] = "started"
    /\ live' = [live EXCEPT ![s] = FALSE]
    /\ Goes(s, "stopped")
    /\ UNCHANGED <<owner, asked, rtp, rtcp, holders>>

\* A mutant: drop does not stop the session.
DropKeepsRunning(s) ==
    /\ stage[s] \in {"started", "stopped"}
    /\ Drops(s, holders[s] \ {"session"})
    /\ Goes(s, "dropped")
    /\ UNCHANGED <<asked, rtp, rtcp, live>>

\* drop calls stop, then the session's own reference goes.
Drop(s) ==
    /\ stage[s] \in {"started", "stopped"}
    /\ live' = [live EXCEPT ![s] = FALSE]
    /\ Drops(s, holders[s] \ {"session"})
    /\ Goes(s, "dropped")
    /\ UNCHANGED <<asked, rtp, rtcp>>

\* A thread, or the RTCP task after a sleep, sees the flag and returns.
TaskEnds(s) ==
    /\ ~live[s]
    /\ \E t \in holders[s] \cap {"tx", "rx", "rtcp"} : Drops(s, holders[s] \ {t})
    /\ UNCHANGED <<stage, asked, rtp, rtcp, live>>

\* Without a usable device an audio thread returns at once; the call goes on.
DeviceFails(s) ==
    /\ live[s]
    /\ \E t \in holders[s] \cap {"tx", "rx"} : Drops(s, holders[s] \ {t})
    /\ UNCHANGED <<stage, asked, rtp, rtcp, live>>

\* Another process binds a port or closes it (external).
OtherProcess ==
    /\ \E p \in Port :
          \/ owner[p] = Free /\ owner' = [owner EXCEPT ![p] = Other]
          \/ owner[p] = Other /\ owner' = [owner EXCEPT ![p] = Free]
    /\ UNCHANGED <<stage, asked, rtp, rtcp, holders, live>>

SetupNext ==
    \/ \E s \in Sessions :
          \/ allocate_port(s)
          \/ Start(s)
          \/ start_internal(s)
          \/ StopSession(s)
          \/ Drop(s)
          \/ TaskEnds(s)
          \/ DeviceFails(s)
    \/ OtherProcess

-----------------------------------------------------------------------------
(* Properties *)

\* Whatever else binds ports meanwhile, a session that has started has two
\* ports, the one asked for and the next one (if it was not started on port 0
\* or on the highest port), even if it has no audio device, and a start that
\* failed at any step has left no thread and no port behind.
PortsPaired ==
    \A s \in Sessions :
        /\ stage[s] = "started" =>
              /\ owner[rtp[s]] = s /\ owner[rtcp[s]] = s
              /\ asked[s] \in 1 .. MaxPort - 1 =>
                    rtp[s] = asked[s] /\ rtcp[s] = rtp[s] + 1
        /\ stage[s] = "failed" =>
              holders[s] = {} /\ \A p \in Port : owner[p] # s

\* Both ports of a session that is dropped, or could not be started, are free
\* again in the end: every thread and task that holds a socket sees the flag.
PortsReleased ==
    \A s \in Sessions :
        stage[s] \in {"failed", "dropped"} ~> \A p \in Port : owner[p] # s
=============================================================================
