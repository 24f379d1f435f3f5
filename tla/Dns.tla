-------------------------------- MODULE Dns ---------------------------------
(***************************************************************************)
(* src/protocols/dns.c: the names of a DNS message, and dns_format, which  *)
(* prints those of its questions and answers.                              *)
(*                                                                         *)
(* Offsets are from the DNS header.  octets is the message as far as it    *)
(* was captured; what lies behind is any octet.  A decoder d is the state  *)
(* of dns_format: the loops it is in, and the recursion of dns_name_int,   *)
(* of which only the outermost position is ever used again.                *)
(***************************************************************************)
EXTENDS Integers, Sequences

CONSTANTS
    MAX_LABEL_REFERENCES,
    NAME,          \* octets of the buffer for a name
    DnsOctets,     \* octets of the body of a message
    RdLens         \* lengths an answer may give for its data

ASSUME DnsAssumption ==
    /\ MAX_LABEL_REFERENCES \in Nat
    /\ NAME \in Nat /\ NAME >= 3
    /\ DnsOctets \subseteq Nat /\ RdLens \subseteq Nat

DNS_HEADER == 12
REFERENCE == 192
MALFORMED == 11    \* "[malformed]"

LesserOf(a, b) == IF a < b THEN a ELSE b

Octet(d, at) == IF at < Len(d.octets) THEN {d.octets[at + 1]} ELSE DnsOctets

\* sections: questions and answers to come.  back is where the outermost call goes on,
\* -1 as long as there is no other; next the end of an answer while the name in its data
\* is decoded, else -1.  dst, size: octets of the name used and left; top: one more than
\* the last that was written.
Decoder(sections, response, do) ==
    [octets |-> <<>>, sections |-> sections, response |-> response, src |-> DNS_HEADER, back |-> -1,
     next |-> -1, visited |-> <<>>, dst |-> 0, size |-> 0, top |-> 0, do |-> do]

-----------------------------------------------------------------------------
\* copy_label prints so many octets, and "..." over the last if they do not fit.
Copy(d, bytes) ==
    IF d.size = 0 THEN d
    ELSE LET used == LesserOf(bytes, d.size)
         IN [d EXCEPT !.dst = @ + used, !.size = @ - used,
                      !.top = IF bytes > d.size THEN d.dst + used + 3 ELSE d.dst + LesserOf(bytes + 1, d.size)]

\* copy_label for the label behind src: up to a NUL in it, and a dot.
copy_label(d, len) ==
    LET most == LesserOf(d.size, len)
        At(i) == Octet(d, d.src + 1 + i)
    IN {Copy(d, n + 1) : n \in {k \in 0..most : /\ \A i \in 0..(k - 1) : At(i) # {0}
                                              /\ k < most => 0 \in At(k)}}

\* dns_name without the room for the dots.
dns_name_whole(d, discard) ==
    [d EXCEPT !.visited = <<>>, !.back = -1, !.dst = 0, !.size = IF discard THEN 0 ELSE NAME, !.do = "label"]

\* dns_name, with no buffer for a name that is skipped.
dns_name(d, discard) ==
    [d EXCEPT !.visited = <<>>, !.back = -1, !.dst = 0, !.size = IF discard THEN 0 ELSE NAME - 3, !.do = "label"]

\* The outermost call returns: at a position, or NULL.  Behind the data of an answer
\* neither counts.
Returned(d, at) ==
    IF d.next # -1 THEN [d EXCEPT !.src = d.next, !.next = -1, !.do = "name"]
    ELSE IF at = -1 THEN [d EXCEPT !.do = "done"]
    ELSE [d EXCEPT !.src = at, !.do = "fields"]

\* A call at any depth returns: those around it only follow.
Return(d, at) == Returned(d, IF d.back = -1 THEN at ELSE d.back)

\* dns_name_int begins.
Enter(d, at) == IF at >= Len(d.octets) THEN Return(d, -1) ELSE [d EXCEPT !.src = at]

\* A reference whose target is not recorded.
FollowAgain(d, offset, at) ==
    IF offset = 0 \/ Len(d.visited) = MAX_LABEL_REFERENCES
    THEN {Return(Copy(d, LesserOf(d.size, MALFORMED) + 1), at)}
    ELSE {Enter([d EXCEPT !.back = IF @ = -1 THEN at ELSE @], offset)}

\* A reference: malformed, or recorded and entered.
Follow(d, offset, at) ==
    IF offset = 0 \/ Len(d.visited) = MAX_LABEL_REFERENCES \/ \E i \in DOMAIN d.visited : d.visited[i] = offset
    THEN {Return(Copy(d, LesserOf(d.size, MALFORMED) + 1), at)}
    ELSE {Enter([d EXCEPT !.visited = Append(@, offset), !.back = IF @ = -1 THEN at ELSE @], offset)}

\* One turn of the loop: len is at src.  The first is not tested for 0.
Label(d) ==
    UNION {IF len >= REFERENCE
           THEN UNION {Follow(d, 256 * (len - REFERENCE) + low, d.src + 2) : low \in Octet(d, d.src + 1)}
           ELSE LET at == d.src + 1 + len
                IN {IF at >= Len(d.octets) THEN Return(e, -1)
                    ELSE IF d.octets[at + 1] = 0 THEN Return(e, at + 1)
                    ELSE [e EXCEPT !.src = at] : e \in copy_label(d, len)} : len \in Octet(d, d.src)}

-----------------------------------------------------------------------------
\* The name of the next question, skipped in a response, or of the next answer.
Name(d) ==
    IF d.sections = <<0, 0>>
    THEN [d EXCEPT !.do = "done"]
    ELSE Enter(dns_name(d, d.response /\ d.sections[1] > 0), d.src)

\* print_query and print_response: type and class follow the name of a question.
Question(d) ==
    IF d.src + 4 >= Len(d.octets)
    THEN [d EXCEPT !.do = "done"]
    ELSE [d EXCEPT !.do = "name", !.src = @ + 4, !.sections = <<@[1] - 1, @[2]>>]

\* The length of the data of an MX behind its preference, in 16 bits.
MxLength(n) == (n - 2) % 65536

Answered(d) == [d EXCEPT !.do = "name", !.sections = <<@[1], @[2] - 1>>]

\* print_response: an answer, whose data may hold a name, behind two octets in an MX.
AnswerAt(d, data) ==
    IF data >= Len(d.octets)
    THEN {[d EXCEPT !.do = "done"]}
    ELSE UNION {{[Answered(d) EXCEPT !.src = data + n],
                 Enter(dns_name([Answered(d) EXCEPT !.next = data + n], FALSE), data),
                 Enter(dns_name([Answered(d) EXCEPT !.next = data + 2 + MxLength(n)], FALSE), data + 2)}
                   : n \in RdLens}

Answer(d) == AnswerAt(d, d.src + 10)

\* dns_format up to its early returns: a message that is cut off or has an error code,
\* and any opcode but QUERY, are not decoded.
dns_format(counts, whole) ==
    {Decoder(<<0, 0>>, FALSE, "done")}
    \cup IF ~whole THEN {}
         ELSE UNION {{Decoder(<<q, 0>>, FALSE, "body")} \cup {Decoder(<<q, n>>, TRUE, "body") : n \in counts}
                        : q \in counts}

\* Its header, from which the decoder was made, and this body.
Message(d, body) ==
    [d EXCEPT !.octets = <<0, 0, IF d.response THEN 128 ELSE 0, 0, 0, d.sections[1], 0, d.sections[2], 0, 0, 0, 0>> \o body,
              !.do = "name"]

\* One step of it behind them, with the bodies the message may have.
DnsStep(d, bodies) ==
    CASE d.do = "body" -> {Message(d, b) : b \in bodies}
      [] d.do = "name" -> {Name(d)}
      [] d.do = "label" -> Label(d)
      [] d.do = "fields" -> IF d.sections[1] > 0 THEN {Question(d)} ELSE Answer(d)
=============================================================================
