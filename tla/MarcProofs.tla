----------------------------- MODULE MarcProofs -----------------------------
(***************************************************************************)
(* MeaningPreserved for any filter ids, numbers of interfaces and numbers  *)
(* of datagrams.  What a datagram is turned into depends on nothing but    *)
(* the datagram, the end that reads it and the compatibility mode there,   *)
(* so the invariant is about each datagram of the net alone: wherever it   *)
(* arrives in a mode it is meant for, it is read as it was meant.          *)
(***************************************************************************)
EXTENDS Marc, TLAPS

\* What marc_poll_event makes of m at e means what the sender meant.
ReadAsMeant(e, compat, m) ==
    LET out == Translate(compat, Filled(e, m))
    IN /\ out.type = m.meant /\ out.id = m.meant_id
       /\ out.type = INIT /\ out.noCI \in 1..31 => m.bytes >= MPinitialization + 8 * out.noCI

Understood(m) ==
    \A e, compat :
        /\ m.to = e /\ compat \in m.dialects /\ (legacy_marc(e, m) => compat)
        /\ Filled(e, m).type # PING
        => ReadAsMeant(e, compat, m) /\ m.meant # PING

MarcInv == (\A m \in net : Understood(m)) /\ MeaningPreserved

-----------------------------------------------------------------------------
(* The datagrams. *)

\* The relay's reply is no event: it is meant for no mode.
LEMMA RelayUnderstood == ASSUME NEW v PROVE Understood(RelayReply(v))
BY DEF Understood, RelayReply, Datagram

\* The events of the web interface, whose ids are text (the "legacy hack").
LEMMA ShortUnderstood ==
    ASSUME NEW id
    PROVE  /\ Understood(Short(LEGACY_RELOAD, FILTER_RELOAD, 0, -1))
           /\ Understood(Short(LEGACY_ADD, FILTER_REQUEST, id, id))
           /\ Understood(Short(LEGACY_DEL, FILTER_DEL, id, id))
<1> USE DEF Understood, ReadAsMeant, Short, Datagram, Translate, Filled, Hack, legacy_marc, legacy_mp, atoi,
            Control, MPauth, MPinitialization, INIT, LEGACY_AUTH, LEGACY_RELOAD, LEGACY_ADD, LEGACY_DEL,
            FILTER_RELOAD, FILTER_REQUEST, FILTER_DEL, PING
<1>1. Understood(Short(LEGACY_RELOAD, FILTER_RELOAD, 0, -1))
  OBVIOUS
<1>2. Understood(Short(LEGACY_ADD, FILTER_REQUEST, id, id))
  OBVIOUS
<1>3. Understood(Short(LEGACY_DEL, FILTER_DEL, id, id))
  OBVIOUS
<1> QED
  BY <1>1, <1>2, <1>3, ZenonT(30)

\* An authorisation without the version field becomes one of the present kind.
LEMMA AuthUnderstood ==
    ASSUME NEW from
    PROVE  Understood(Auth06) /\ Understood([Auth06 EXCEPT !.from = from])
<1> USE DEF Understood, ReadAsMeant, Auth06, Datagram, Translate, Compat, legacy_compat, Filled, legacy_marc, legacy_mp,
            Control, MPauth, MPinitialization, INIT, LEGACY_AUTH, LEGACY_ADD, AUTHORIZE, PING, STATUS, FILTER_REQUEST, FILTER
<1>1. Understood(Auth06)
  OBVIOUS
<1>2. Understood([Auth06 EXCEPT !.from = from])
  OBVIOUS
<1> QED
  BY <1>1, <1>2, ZenonT(30)

\* A filter of a MArCd 0.6 has a number that only the compatibility mode understands.
LEMMA FilterUnderstood == ASSUME NEW id PROVE Understood(Filter06(id))
BY DEF Understood, ReadAsMeant, Filter06, Datagram, Translate, Compat, legacy_compat, Filled, legacy_marc, legacy_mp,
       MPFilter, MPauth, MPinitialization, INIT, LEGACY_AUTH, LEGACY_ADD, PING, STATUS, FILTER_REQUEST, FILTER

\* An initialisation of a measurement point 0.6 counts no interfaces.
LEMMA InitUnderstood == Understood(Init06)
BY DEF Understood, ReadAsMeant, Init06, Datagram, Translate, Compat, legacy_compat, Filled, legacy_marc, legacy_mp,
       MPauth, MPinitialization, INIT, LEGACY_AUTH, LEGACY_ADD, PING, STATUS, FILTER_REQUEST, FILTER

\* event_size of an initialisation, whose product is taken in network order: exact up to
\* 31 interfaces, and never less than the structure.
LEMMA InitSize ==
    ASSUME NEW n \in Nat
    PROVE  /\ event_size(INIT, n) \in Nat /\ event_size(INIT, n) >= MPinitialization
           /\ n \in 1..31 => event_size(INIT, n) = MPinitialization + 8 * n
<1>1. event_size(INIT, n) = MPinitialization + ntohs((8 * ntohs(n)) % 65536)
  BY DEF event_size, INIT, AUTHORIZE, STATUS, STATUS3, DSTAT, FILTER, FILTER_REQUEST, INVALID_ID, TERMINATE,
         DISTRESS, PING, FILTER_RELOAD, FILTER_DEL
<1>2. \A k \in Nat : ntohs(k) \in Nat
  BY DEF ntohs
<1>3. (8 * ntohs(n)) % 65536 \in Nat
  BY <1>2
<1>4. ASSUME n \in 1..31 PROVE ntohs((8 * ntohs(n)) % 65536) = 8 * n
  <2>1. ntohs(n) = 256 * n
    BY <1>4 DEF ntohs
  <2>2. (8 * (256 * n)) % 65536 = 2048 * n
    BY <1>4
  <2>3. ntohs(2048 * n) = 8 * n
    BY <1>4 DEF ntohs
  <2> QED
    BY <2>1, <2>2, <2>3
<1> QED
  BY <1>1, <1>2, <1>3, <1>4 DEF MPinitialization

\* An event that marc_push_event has sent, in or out of the compatibility mode.
LEMMA PushedUnderstood ==
    ASSUME NEW e, NEW c, NEW to, NEW id, NEW type \in ClientEvents \cup ServerEvents, NEW noCI \in Nat
    PROVE  Understood(Pushed(e, c, to, type, id, noCI))
<1> DEFINE m == Pushed(e, c, to, type, id, noCI)
<1>1. /\ m.type = Compat(c.compat, type) /\ m.bytes = event_size(type, noCI)
      /\ m.id = id /\ m.meant_id = id /\ m.noCI = noCI /\ m.meant = type /\ m.to = to
      /\ m.dialects = IF type \in {STATUS, FILTER_REQUEST} THEN {FALSE} \cap {c.compat} ELSE BOOLEAN
  BY DEF Pushed, Datagram
<1>2. \A x : /\ [m EXCEPT !.type = x].type = x /\ [m EXCEPT !.type = x].id = m.id
             /\ [m EXCEPT !.type = x].noCI = m.noCI
  BY DEF Pushed, Datagram
<1> HIDE DEF m
<1> SUFFICES ASSUME NEW at, NEW compat, m.to = at, compat \in m.dialects, Filled(at, m).type # PING
             PROVE  ReadAsMeant(at, compat, m) /\ m.meant # PING
  BY DEF Understood, m
<1>3. m.type = type /\ Compat(compat, type) = type
  <2>1. CASE type \in {STATUS, FILTER_REQUEST}
    BY <1>1, <2>1 DEF Compat
  <2>2. CASE type \notin {STATUS, FILTER_REQUEST}
    BY <1>1, <2>2 DEF Compat, legacy_compat, ClientEvents, ServerEvents, LEGACY_ADD, INIT, STATUS3, DSTAT, DISTRESS,
          AUTHORIZE, FILTER, FILTER_RELOAD, FILTER_DEL, INVALID_ID, TERMINATE, PING
  <2> QED
    BY <2>1, <2>2
<1>4. type = INIT \/ (type \in Nat /\ type > 11)
  BY DEF ClientEvents, ServerEvents, INIT, STATUS, FILTER_REQUEST, STATUS3, DSTAT, DISTRESS,
         AUTHORIZE, FILTER, FILTER_RELOAD, FILTER_DEL, INVALID_ID, TERMINATE, PING
<1>5. type = INIT => m.bytes \in Nat /\ m.bytes >= MPinitialization
  BY <1>1, InitSize
<1>6. Filled(at, m) = m
  <2>1. ~legacy_marc(at, m) /\ ~legacy_mp(at, m)
    BY <1>3, <1>4, <1>5 DEF legacy_marc, legacy_mp, LEGACY_AUTH, INIT, MPauth, MPinitialization
  <2> QED
    BY <2>1, ZenonT(30) DEF Filled, Pushed, Datagram, m
<1>7. Translate(compat, m) = [m EXCEPT !.type = Compat(compat, m.type)]
  BY <1>3, <1>4, <1>5 DEF Translate, INIT, MPinitialization
<1>8. type # PING
  BY <1>3, <1>6
<1>9. type = INIT /\ noCI \in 1..31 => m.bytes >= MPinitialization + 8 * noCI
  BY <1>1, InitSize DEF MPinitialization
<1>10. Translate(compat, Filled(at, m)).type = type
  BY <1>2, <1>3, <1>6, <1>7
<1>11. Translate(compat, Filled(at, m)).id = id /\ Translate(compat, Filled(at, m)).noCI = noCI
  BY <1>1, <1>2, <1>6, <1>7, ZenonT(30)
<1> QED
  BY <1>1, <1>8, <1>9, <1>10, <1>11 DEF ReadAsMeant

-----------------------------------------------------------------------------
(* The steps. *)

\* A call that gives no event leaves nothing to be misunderstood.
LEMMA NoEvent == ASSUME NEW v, ret' = Return(v) PROVE MeaningPreserved'
BY DEF MeaningPreserved, Return

\* marc_push_event, from whichever call.
LEMMA SendsKeeps ==
    ASSUME MarcInv, NEW e, NEW c, NEW to, NEW id, NEW value,
           NEW type \in ClientEvents \cup ServerEvents, NEW noCI \in Nat,
           Sends(e, c, to, type, id, noCI, value)
    PROVE  MarcInv'
<1>1. \A m \in net' : Understood(m)
  BY PushedUnderstood DEF MarcInv, Sends
<1>2. CASE ret' = ret
  BY <1>1, <1>2 DEF MarcInv, MeaningPreserved
<1>3. CASE \E v : ret' = Return(v)
  BY <1>1, <1>3, NoEvent DEF MarcInv
<1> QED
  BY <1>2, <1>3 DEF Sends

\* marc_poll_event: what it gives to the caller is what the invariant says of the datagram.
LEMMA PollKeeps ==
    ASSUME MarcInv, NEW e, marc_poll_event(e)
    PROVE  MarcInv'
<1> DEFINE K(m) == ctx[e].compat \/ legacy_marc(e, m)
           C(m) == [ctx[e] EXCEPT !.compat = K(m)]
           Out(m) == Translate(K(m), Filled(e, m))
<1>1. PICK m \in net :
          /\ m.to = e
          /\ IF Filled(e, m).type = PING
             THEN Sends(e, C(m), m.from, PING, 0, 0, <<"EAGAIN", "EAGAIN">>)
             ELSE /\ ret' = [value |-> "ok", type |-> Out(m).type, meant |-> m.meant, id |-> Out(m).id,
                             meant_id |-> m.meant_id, noCI |-> Out(m).noCI, bytes |-> m.bytes,
                             dialects |-> m.dialects, compat |-> K(m)]
                  /\ UNCHANGED net
  BY ZenonT(30) DEF marc_poll_event
<1> HIDE DEF C
<1>2. CASE Filled(e, m).type = PING
  BY <1>1, <1>2, SendsKeeps DEF ServerEvents
<1>3. CASE Filled(e, m).type # PING
  <2> DEFINE out == Out(m)
             compat == K(m)
  <2>1. /\ ret'.type = out.type /\ ret'.meant = m.meant /\ ret'.id = out.id /\ ret'.meant_id = m.meant_id
        /\ ret'.noCI = out.noCI /\ ret'.bytes = m.bytes /\ ret'.dialects = m.dialects /\ ret'.compat = compat
        /\ net' = net
    BY <1>1, <1>3
  <2>2. legacy_marc(e, m) /\ compat \in m.dialects => compat
    OBVIOUS
  <2>3. compat \in m.dialects => ReadAsMeant(e, compat, m) /\ m.meant # PING
    BY <1>1, <1>3, <2>2, ZenonT(30) DEF MarcInv, Understood
  <2>4. MeaningPreserved'
    BY <2>1, <2>3 DEF MeaningPreserved, ReadAsMeant
  <2> QED
    BY <2>1, <2>4 DEF MarcInv
<1> QED
  BY <1>2, <1>3

\* The other programs, whatever they send and whenever.
LEMMA SendKeeps == ASSUME MarcInv, Send PROVE MarcInv'
<1>1. PICK m \in External : net' = net \cup {m} /\ ret' = ret
  BY DEF Send
<1>2. Understood(m)
  BY RelayUnderstood, ShortUnderstood, AuthUnderstood, FilterUnderstood, InitUnderstood, ZenonT(30) DEF External
<1> QED
  BY <1>1, <1>2 DEF MarcInv, MeaningPreserved

\* The start and the end of a context give no event and send at most the first request.
LEMMA ContextKeeps ==
    ASSUME MarcInv,
           \/ InitClient \/ InitTimeout \/ InitInterrupted \/ InitReply \/ marc_init_server
           \/ \E e \in {"client", "server"} : InitFails(e) \/ marc_cleanup(e) \/ PollNothing(e) \/ Exit(e)
    PROVE  MarcInv'
<1>1. ASSUME NEW e, NEW v, Fails(e, v) PROVE MarcInv'
  BY <1>1, NoEvent DEF MarcInv, Fails
<1>2. ASSUME net' = net, ret' = ret \/ \E v : ret' = Return(v) PROVE MarcInv'
  BY <1>2, NoEvent DEF MarcInv, MeaningPreserved
<1>3. CASE InitReply
  <2>1. PICK m \in net, noCI \in Interfaces :
            Fails("client", "ECONNREFUSED") \/ marc_client_init_request(Replied(m), noCI)
    BY <1>3 DEF InitReply
  <2>2. CASE marc_client_init_request(Replied(m), noCI)
    BY <2>2, SendsKeeps, InterfacesAssumption DEF marc_client_init_request, ClientEvents
  <2> QED
    BY <1>1, <2>1, <2>2
<1>4. CASE InitTimeout
  BY <1>1, <1>2, <1>4 DEF InitTimeout
<1>5. CASE InitClient \/ marc_init_server \/ \E e \in {"client", "server"} : PollNothing(e) \/ Exit(e)
  BY <1>2, <1>5 DEF InitClient, marc_init_server, PollNothing, Exit
<1>6. CASE InitInterrupted \/ \E e \in {"client", "server"} : InitFails(e) \/ marc_cleanup(e)
  BY <1>1, <1>6 DEF InitInterrupted, InitFails, marc_cleanup
<1> QED
  BY <1>3, <1>4, <1>5, <1>6

\* The events of the two ends.
LEMMA PushKeeps == ASSUME MarcInv, ClientPush \/ ServerPush PROVE MarcInv'
<1>1. ASSUME NEW e, NEW type \in ClientEvents \cup ServerEvents, NEW id, NEW noCI \in Nat,
             marc_push_event(e, type, id, noCI)
      PROVE  MarcInv'
  BY <1>1, SendsKeeps DEF marc_push_event
<1>2. CASE ClientPush
  BY <1>1, <1>2, InterfacesAssumption DEF ClientPush, marc_filter_request, ClientEvents
<1>3. CASE ServerPush
  BY <1>1, <1>3 DEF ServerPush
<1> QED
  BY <1>2, <1>3

\* In whatever order and however often datagrams arrive, between ends that change their
\* compatibility mode meanwhile, marc_poll_event gives every event the meaning its sender
\* gave it, for any filters, interfaces and numbers of datagrams.
THEOREM MarcPreservesMeaning == Spec => []MeaningPreserved
<1>1. Init => MarcInv
  BY DEF Init, MarcInv, MeaningPreserved, Return
<1>2. MarcInv /\ [Next]_vars => MarcInv'
  <2>1. MarcInv /\ UNCHANGED vars => MarcInv'
    BY DEF MarcInv, MeaningPreserved, vars
  <2> QED
    BY <2>1, ContextKeeps, PushKeeps, SendKeeps, PollKeeps DEF Next
<1>3. MarcInv => MeaningPreserved
  BY DEF MarcInv
<1> QED
  BY <1>1, <1>2, <1>3, PTL DEF Spec
=============================================================================
