-------------------------------- MODULE Stun --------------------------------
(***************************************************************************)
(* The STUN client of src/stun.rs: discover_public_address asks servers in *)
(* turn over one socket, and takes one datagram for the answer to each.    *)
(*                                                                         *)
(* The socket may be the RTP socket, and a request that timed out may be   *)
(* answered later, so what is received need not be the answer.  Attempt k  *)
(* uses transaction k (twelve random bytes in the code).  A message is     *)
(* what parse_binding_response tells apart: its shape ("rtp" for all that  *)
(* fails before the transaction is looked at), its transaction and its     *)
(* attributes in order.  An address stands for an IP address and a port;   *)
(* exclusive or with the cookie is Xored, its own inverse.                 *)
(***************************************************************************)
EXTENDS Integers, Sequences

CONSTANTS
    Servers,       \* length of DEFAULT_STUN_SERVERS
    MaxAddress,    \* addresses are 0 .. MaxAddress
    Public,        \* the address the servers see
    MaxForeign,    \* bound: datagrams that are no answers
    NoAddress      \* no address yet

ASSUME StunAssumption ==
    /\ Servers \in Nat \ {0}
    /\ MaxAddress \in Nat
    /\ Public \in 0 .. MaxAddress

Xored(a) == MaxAddress - a

\* What servers answer: attributes before the address are skipped.
Attributes ==
    {<<[type |-> "xor", family |-> 4, address |-> Xored(Public)]>>,
     <<[type |-> "mapped", family |-> 4, address |-> Public]>>,
     <<[type |-> "other", family |-> 0, address |-> Public],
       [type |-> "xor", family |-> 4, address |-> Xored(Public)],
       [type |-> "mapped", family |-> 4, address |-> Public]>>,
     <<[type |-> "xor", family |-> 6, address |-> Public]>>,
     <<>>}

VARIABLES
    attempt,    \* the server asked, from 1
    asking,     \* "send", "wait", or "done"
    requests,   \* transactions on their way to a server
    socket,     \* messages received by the socket, not read
    found,      \* the result's address, or NoAddress
    last_error, \* why the last attempt failed, or "none"
    foreign,    \* datagrams so far that are no answers
    fresh       \* history: found is the answer to the request of the attempt

stunVars == <<attempt, asking, requests, socket, found, last_error, foreign, fresh>>

StunInit ==
    /\ attempt = 1 /\ asking = "send"
    /\ requests = {} /\ socket = <<>>
    /\ found = NoAddress /\ last_error = "none"
    /\ foreign = 0 /\ fresh = TRUE

-----------------------------------------------------------------------------
(* discover_with_socket *)

\* The attempt fails: the next server, or the last error is returned.
Fails(why) ==
    /\ last_error' = why
    /\ IF attempt < Servers
       THEN attempt' = attempt + 1 /\ asking' = "send"
       ELSE asking' = "done" /\ UNCHANGED attempt
    /\ UNCHANGED <<found, fresh>>

\* build_binding_request and send_to, after the server was resolved.
SendRequest ==
    /\ asking = "send"
    /\ requests' = requests \cup {attempt}
    /\ asking' = "wait"
    /\ UNCHANGED <<attempt, socket, found, last_error, foreign, fresh>>

\* lookup_host or send_to fails.
Unreachable ==
    /\ asking = "send"
    /\ Fails("network")
    /\ UNCHANGED <<requests, socket, foreign>>

\* The first address attribute is the one that counts.
MappedAddress(attributes) ==
    LET mapped == {k \in DOMAIN attributes : attributes[k].type \in {"xor", "mapped"}}
        first == attributes[CHOOSE k \in mapped : \A j \in mapped : k <= j]
    IN  IF mapped = {} \/ first.family # 4 THEN NoAddress
        ELSE IF first.type = "xor" THEN Xored(first.address)
        ELSE first.address

\* A mutant: the transaction is not looked at.
AnyTransaction(message) ==
    IF message.shape # "response" THEN NoAddress ELSE MappedAddress(message.attributes)

parse_binding_response(message) ==
    IF message.shape # "response" \/ message.transaction # attempt THEN NoAddress
    ELSE MappedAddress(message.attributes)

\* recv_from gives one datagram, from anywhere, and it decides the attempt.
ReceiveAnswer ==
    /\ asking = "wait" /\ socket # <<>>
    /\ socket' = Tail(socket)
    /\ LET message == Head(socket)
           address == parse_binding_response(message)
       IN  IF address = NoAddress THEN Fails("response")
           ELSE /\ found' = address
                /\ fresh' = (message.transaction = attempt)
                /\ asking' = "done"
                /\ UNCHANGED <<attempt, last_error>>
    /\ UNCHANGED <<requests, foreign>>

\* A mutant: no timeout.
WaitForever == FALSE /\ UNCHANGED stunVars

\* Three seconds are over and nothing has come.
TimesOut ==
    /\ asking = "wait" /\ socket = <<>>
    /\ Fails("timeout")
    /\ UNCHANGED <<requests, socket, foreign>>

\* recv_from fails, which nothing guarantees.
ReceiveFails ==
    /\ asking = "wait"
    /\ Fails("network")
    /\ UNCHANGED <<requests, socket, foreign>>

Discover == SendRequest \/ Unreachable \/ ReceiveAnswer \/ TimesOut

-----------------------------------------------------------------------------
(* The network (external) *)

Answered(transaction, attributes) ==
    /\ requests' = requests \ {transaction}
    /\ socket' = Append(socket, [shape |-> "response", transaction |-> transaction,
                                 attributes |-> attributes])
    /\ UNCHANGED <<attempt, asking, found, last_error, foreign, fresh>>

LoseRequest(transaction) ==
    /\ requests' = requests \ {transaction}
    /\ UNCHANGED <<attempt, asking, socket, found, last_error, foreign, fresh>>

\* RTP, or any other datagram on the same socket.
Foreign ==
    /\ foreign < MaxForeign /\ asking # "done"
    /\ foreign' = foreign + 1
    /\ socket' = Append(socket, [shape |-> "rtp", transaction |-> 0, attributes |-> <<>>])
    /\ UNCHANGED <<attempt, asking, requests, found, last_error, fresh>>

StunNext ==
    \/ Discover
    \/ ReceiveFails
    \/ \E transaction \in requests :
          \/ LoseRequest(transaction)
          \/ \E attributes \in Attributes : Answered(transaction, attributes)
    \/ Foreign

-----------------------------------------------------------------------------
(* Properties *)

\* Whatever else arrives on the socket and however late, an address that is
\* returned is the public one, from the answer to the request of the very
\* attempt that returns it; and an error is returned only after every server
\* has been asked.
StunOwnAnswer ==
    asking = "done" =>
        IF found # NoAddress THEN found = Public /\ fresh
        ELSE attempt = Servers /\ last_error # "none"

\* Once a request is out discovery ends, whatever is lost: every attempt has
\* its timeout, and there are only so many servers.
StunEnds == asking = "wait" ~> asking = "done"
=============================================================================
