-------------------------------- MODULE Marc --------------------------------
(***************************************************************************)
(* src/marc.c: measurement points (clients) and MArCd (a server) exchange  *)
(* events as datagrams, which may be lost, duplicated and reordered: net   *)
(* holds all that were sent, and any of them may arrive any number of      *)
(* times, or never, and outlive the process it was sent to.                *)
(*                                                                         *)
(* The MArCd of version 0.6 (marcd = "legacy"), the web interface, old     *)
(* measurement points and the relay daemon are external: they only put     *)
(* datagrams on the net.  What a sender wants to say is in meant and       *)
(* meant_id, and dialects holds the states of the receiver's compatibility *)
(* mode in which the datagram is meant to be read.                         *)
(***************************************************************************)
EXTENDS Integers, FiniteSets

CONSTANTS
    FilterIds,     \* ids of filters
    Interfaces,    \* numbers of capture interfaces (noCI) a client may have
    MaxSent        \* bound: datagrams sent, other than by the relay and as answers

ASSUME InterfacesAssumption == Interfaces \subseteq Nat

VARIABLES
    marcd,         \* "libmarc" or "legacy"
    ctx,           \* per process, its context and the socket bound to its port
    net,           \* datagrams sent
    ret            \* what the last call returned: its value, and the event of marc_poll_event

vars == <<marcd, ctx, net, ret>>

\* enum MPEvent: the legacy numbers depend on who sends them.
INIT == 1
LEGACY_AUTH == 1
LEGACY_STATUS == 2
LEGACY_RELOAD == 2
LEGACY_ADD == 3
LEGACY_DEL == 5
STATUS == 64
FILTER_REQUEST == 66
FILTER == 67
FILTER_RELOAD == 68
FILTER_DEL == 69
INVALID_ID == 72
STATUS3 == 100
DSTAT == 101
AUTHORIZE == 128
TERMINATE == 130
PING == 133
DISTRESS == 256

ClientEvents == {INIT, STATUS, STATUS3, DSTAT, FILTER_REQUEST, DISTRESS}
ServerEvents == {AUTHORIZE, FILTER, FILTER_RELOAD, FILTER_DEL, INVALID_ID, TERMINATE, PING}

\* Octets of the structures.
MPinitialization == 256
MPauth == 24
MPFilter == 300
Control == 20
MAINFO == 220

\* A datagram.  id is in network order, or as text in the events of the web interface.
Datagram(from, to, type, bytes) ==
    [from |-> from, to |-> to, type |-> type, bytes |-> bytes, id |-> 0, text |-> FALSE, noCI |-> 0,
     dialects |-> BOOLEAN, meant |-> type, meant_id |-> 0]

\* As an event, the first octets of a reply of the relay (its version, htons in an int)
\* are the upper half of the type.
RelayReply(version) == [Datagram("relay", "client", version * 65536, MAINFO) EXCEPT !.dialects = {}]

Short(type, meant, id, meant_id) ==
    [Datagram("gui", "client", type, Control + 4) EXCEPT
        !.id = id, !.text = TRUE, !.meant = meant, !.meant_id = meant_id]
Auth06 == [Datagram("server", "client", LEGACY_AUTH, Control) EXCEPT !.meant = AUTHORIZE]
Filter06(id) ==
    [Datagram("server", "client", LEGACY_ADD, MPFilter) EXCEPT
        !.id = id, !.dialects = {TRUE}, !.meant = FILTER, !.meant_id = id]
Init06 == [Datagram("mp06", "server", INIT, 240) EXCEPT !.noCI = 2]

\* What the others send: the relay and the web interface at any time, a MArCd of
\* version 0.6 if there is one, and an old measurement point to a libmarc server.
External ==
    {RelayReply(v) : v \in {1, 3}}
    \cup {[Auth06 EXCEPT !.from = "gui"], Short(LEGACY_RELOAD, FILTER_RELOAD, 0, -1)}
    \cup {Short(LEGACY_ADD, FILTER_REQUEST, i, i) : i \in FilterIds}
    \cup {Short(LEGACY_DEL, FILTER_DEL, i, i) : i \in FilterIds}
    \cup (IF marcd = "legacy" THEN {Auth06} \cup {Filter06(i) : i \in FilterIds} ELSE {Init06})

Return(value) ==
    [value |-> value, type |-> 0, meant |-> 0, id |-> 0, meant_id |-> 0, noCI |-> 0, bytes |-> 0,
     dialects |-> {}, compat |-> FALSE]
Down == [pc |-> "down", bound |-> FALSE, n |-> 0, compat |-> FALSE, dst |-> "nowhere"]

max_retries == 6
MaySend == Cardinality({m \in net : m.from # "relay"}) < MaxSent

Init ==
    /\ marcd \in {"libmarc", "legacy"}
    /\ ctx = [e \in {"client", "server"} |-> Down]
    /\ net = {}
    /\ ret = Return("ok")

-----------------------------------------------------------------------------
(* marc_push_event *)

ntohs(n) == (n % 256) * 256 + ((n \div 256) % 256)

\* Octets to send, 0 where the assertion fails.  The reports are short or long.
event_size(type, noCI) ==
    CASE type = INIT -> MPinitialization + ntohs((8 * ntohs(noCI)) % 65536)
      [] type = AUTHORIZE -> MPauth
      [] type = STATUS -> 33 + 30 * noCI
      [] type = STATUS3 -> 40 + 24 * noCI
      [] type = DSTAT -> 28 + 24 * noCI
      [] type = FILTER -> MPFilter
      [] type = FILTER_REQUEST -> 24
      [] type = INVALID_ID -> 4
      [] type \in {TERMINATE, DISTRESS, PING} -> Control
      [] type \in {FILTER_RELOAD, FILTER_DEL} -> 0

legacy_compat(type) ==
    IF type = STATUS THEN LEGACY_STATUS
    ELSE IF type = FILTER_REQUEST THEN 3
    ELSE IF type = LEGACY_ADD THEN FILTER
    ELSE type

Compat(compat, type) == IF compat THEN legacy_compat(type) ELSE type

\* The datagram of a pushed event.
Pushed(e, c, to, type, id, noCI) ==
    [Datagram(e, to, Compat(c.compat, type), event_size(type, noCI)) EXCEPT
        !.id = id, !.meant_id = id, !.noCI = noCI, !.meant = type,
        !.dialects = IF type \in {STATUS, FILTER_REQUEST} THEN {FALSE} \cap {c.compat} ELSE BOOLEAN]

\* The push, by a context that is now c, of a call that then returns value[1], or
\* value[2] if sendto fails.
Sends(e, c, to, type, id, noCI, value) ==
    IF event_size(type, noCI) = 0
    THEN ctx' = [ctx EXCEPT ![e] = [c EXCEPT !.pc = "aborted"]] /\ UNCHANGED <<net, ret>>
    ELSE /\ ctx' = [ctx EXCEPT ![e] = c]
         /\ \/ ret' = Return(value[1]) /\ net' = net \cup {Pushed(e, c, to, type, id, noCI)}
            \/ ret' = Return(value[2]) /\ UNCHANGED net

marc_push_event(e, type, id, noCI) ==
    /\ ctx[e].pc = "up"
    /\ MaySend
    /\ Sends(e, ctx[e], IF e = "client" THEN ctx[e].dst ELSE "client", type, id, noCI, <<"ok", "errno">>)
    /\ UNCHANGED marcd

marc_client_init_request(c, noCI) == Sends("client", c, c.dst, INIT, 0, noCI, <<"ok", "errno">>)

marc_filter_request == \E i \in FilterIds : marc_push_event("client", FILTER_REQUEST, i, 0)

-----------------------------------------------------------------------------
(* marc_init_client, marc_init_server, marc_cleanup *)

\* No error return closes the socket; what is bound stays so until the process ends.
Fails(e, value) ==
    /\ ctx' = [ctx EXCEPT ![e] = [Down EXCEPT !.bound = ctx[e].bound]]
    /\ ret' = Return(value)
    /\ UNCHANGED <<marcd, net>>

\* A call before bind fails, or bind itself, always on a port that is still bound.
InitFails(e) == ctx[e].pc = "down" /\ Fails(e, "errno")

\* The request goes to the relay, once.
InitClient ==
    LET c == ctx["client"]
    IN /\ c.pc = "down" /\ ~c.bound
       /\ \/ ctx' = [ctx EXCEPT !["client"] = [c EXCEPT !.pc = "wait", !.bound = TRUE, !.n = 1]] /\ UNCHANGED ret
          \/ ctx' = [ctx EXCEPT !["client"] = [c EXCEPT !.bound = TRUE]] /\ ret' = Return("errno")
       /\ UNCHANGED <<marcd, net>>

\* The wait without the count of its tries.
TimedOutAgain(c) == c

TimedOut(c) == [c EXCEPT !.n = @ + 1]

InitTimeout ==
    LET c == TimedOut(ctx["client"])
    IN /\ ctx["client"].pc = "wait"
       /\ IF c.n < max_retries
          THEN ctx' = [ctx EXCEPT !["client"] = c] /\ UNCHANGED <<marcd, net, ret>>
          ELSE Fails("client", "ECANCELED")

\* select or recvfrom fails, or a signal comes.
InitInterrupted == ctx["client"].pc = "wait" /\ Fails("client", "errno")

\* The context behind a reply.  In any other datagram the address is no address, and the
\* server stays 0.0.0.0.
Replied(m) ==
    [ctx["client"] EXCEPT !.pc = "up", !.n = 0, !.dst = IF m.from = "relay" THEN "server" ELSE "nowhere"]

\* Whatever arrives first is taken for the reply.
InitReply ==
    \E m \in net, noCI \in Interfaces :
        /\ ctx["client"].pc = "wait"
        /\ m.to = "client"
        /\ IF m.type \div 65536 = 1
           THEN Fails("client", "ECONNREFUSED")
           ELSE marc_client_init_request(Replied(m), noCI) /\ UNCHANGED marcd

marc_init_server ==
    /\ marcd = "libmarc"
    /\ ctx["server"].pc = "down" /\ ~ctx["server"].bound
    /\ ctx' = [ctx EXCEPT !["server"].pc = "up", !["server"].bound = TRUE]
    /\ ret' = Return("ok")
    /\ UNCHANGED <<marcd, net>>

\* The context is freed, the socket is left open.
marc_cleanup(e) == ctx[e].pc = "up" /\ Fails(e, "ok")

-----------------------------------------------------------------------------
(* marc_poll_event *)

\* The text of an id; octets in network order are an empty string, or no digits.
atoi(m) == IF m.text THEN m.id ELSE 0

\* An event of the web interface, without the payload.
Hack(m) ==
    IF m.type = LEGACY_ADD THEN [m EXCEPT !.type = FILTER_REQUEST, !.id = atoi(m)]
    ELSE IF m.type = LEGACY_DEL THEN [m EXCEPT !.type = FILTER_DEL, !.id = atoi(m)]
    ELSE IF m.type = LEGACY_RELOAD THEN [m EXCEPT !.type = FILTER_RELOAD, !.id = -1]
    ELSE m

legacy_marc(e, m) == e = "client" /\ m.type = LEGACY_AUTH /\ m.bytes < MPauth
legacy_mp(e, m) == e = "server" /\ m.type = INIT /\ m.bytes < MPinitialization

\* What is filled in for old senders: the type of an authorisation, no interfaces.
Filled(e, m) ==
    [m EXCEPT !.type = IF legacy_marc(e, m) THEN AUTHORIZE ELSE @, !.noCI = IF legacy_mp(e, m) THEN 0 ELSE @]

\* An event as it is given to the caller, by a context whose compatibility mode is now so.
TranslateAll(compat, m) == [m EXCEPT !.type = Compat(compat, m.type)]

Translate(compat, m) ==
    IF m.bytes < 100 /\ m.type < 11 THEN Hack(m) ELSE [m EXCEPT !.type = Compat(compat, m.type)]

\* server_version, which is stored from an authorisation and read nowhere, is left out.
marc_poll_event(e) ==
    \E m \in net :
        LET compat == ctx[e].compat \/ legacy_marc(e, m)
            c == [ctx[e] EXCEPT !.compat = compat]
            out == Translate(compat, Filled(e, m))
        IN /\ ctx[e].pc = "up"
           /\ m.to = e
           /\ IF Filled(e, m).type = PING
              THEN Sends(e, c, m.from, PING, 0, 0, <<"EAGAIN", "EAGAIN">>) /\ UNCHANGED marcd
              ELSE /\ ctx' = [ctx EXCEPT ![e] = c]
                   /\ ret' = [value |-> "ok", type |-> out.type, meant |-> m.meant, id |-> out.id, meant_id |-> m.meant_id,
                              noCI |-> out.noCI, bytes |-> m.bytes, dialects |-> m.dialects, compat |-> compat]
                   /\ UNCHANGED <<marcd, net>>

\* select times out, or a call fails.
PollNothing(e) ==
    /\ ctx[e].pc = "up"
    /\ ret' \in {Return("EAGAIN"), Return("errno")}
    /\ UNCHANGED <<marcd, ctx, net>>

-----------------------------------------------------------------------------
\* The environment: the other senders, and processes that end and start again.
Send ==
    /\ \E m \in External : (m.from = "relay" \/ MaySend) /\ net' = net \cup {m}
    /\ UNCHANGED <<marcd, ctx, ret>>

Exit(e) ==
    /\ ctx[e] # Down
    /\ ctx' = [ctx EXCEPT ![e] = Down]
    /\ UNCHANGED <<marcd, net, ret>>

ClientPush ==
    \/ \E t \in ClientEvents \ {FILTER_REQUEST}, n \in Interfaces : marc_push_event("client", t, 0, n)
    \/ marc_filter_request
ServerPush == \E t \in ServerEvents, i \in FilterIds : marc_push_event("server", t, IF t = FILTER THEN i ELSE 0, 0)

Next ==
    \/ InitClient \/ InitTimeout \/ InitInterrupted \/ InitReply
    \/ marc_init_server \/ ClientPush \/ ServerPush \/ Send
    \/ \E e \in {"client", "server"} :
          InitFails(e) \/ marc_cleanup(e) \/ marc_poll_event(e) \/ PollNothing(e) \/ Exit(e)

\* select returns when its time is over.
Spec == Init /\ [][Next]_vars /\ WF_vars(InitTimeout)

-----------------------------------------------------------------------------
(* Properties *)

\* "New events are translated automatically if MArCd version is to old" (marc.h): in
\* whatever order, and however late, datagrams arrive, an event reaches the caller with
\* the type and filter its sender meant, if both ends agreed on the version when it was
\* sent and read; no ping does; and an initialization brings all interfaces it counts, if
\* they are fewer than 32 (event_size counts their octets modulo 256).
MeaningPreserved ==
    ret.compat \in ret.dialects =>
        /\ ret.type = ret.meant /\ ret.id = ret.meant_id
        /\ ret.type # PING
        /\ ret.type = INIT /\ ret.noCI \in 1..31 => ret.bytes >= MPinitialization + 8 * ret.noCI

\* marc_init_client returns, whether or not there is a relay and whatever else arrives.
InitEnds == ctx["client"].pc = "wait" ~> ctx["client"].pc # "wait"
=============================================================================
