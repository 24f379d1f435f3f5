---------------------------- MODULE CreateFilter ----------------------------
(***************************************************************************)
(* src/createfilter.c: a filter from the command line of a tool, or from   *)
(* calls of filter_*_set.                                                  *)
(*                                                                         *)
(* An argument of the command line is a record:                            *)
(*   opts   the filter options its text is a prefix of, {} for any other   *)
(*          argument; aliases of an option are one option                  *)
(*   eq     it has the form --option=value                                 *)
(*   dash   it begins with '-'                                             *)
(*   val    the value behind '=', or what a word means as a value          *)
(* A value has the fields its parser reads, and bad = "value" or "mask" if *)
(* the text or the part behind '/' is none.                                *)
(***************************************************************************)
EXTENDS Filter

CONSTANT Digits          \* digits of a fraction of a second, 12 in the code

ASSUME DigitsAssumption == Digits \in Nat

Options == Criteria \cup {"caplen", "mode", "bpf"}
Addresses == {"ip_src", "ip_dst", "eth_src", "eth_dst"}
Times == {"start_time", "end_time", "frame_max_dt"}

\* Names of protocols, interfaces and measurement points, those below among them.
Names == STRING \cup {"none", "junk"}

\* What the parsers find in a text.
Ranges == [form : {"single", "both", "upper", "lower", "bad"}, a : Int, b : Int]
Values ==
    [bad : {"no", "value", "mask"}, val : SUBSET Nat, mask : SUBSET Nat, has_mask : BOOLEAN, name : Names, sec : Nat,
     frac : Nat, digits : Nat, ranges : Seq(Ranges), n : Nat, mode : {"AND", "OR", "other"}]

\* What any text means to a parser that cannot read it.
Junk ==
    [bad |-> "value", val |-> {}, mask |-> {}, has_mask |-> FALSE, name |-> "junk", sec |-> 0,
     frac |-> 0, digits |-> 0, ranges |-> <<>>, n |-> 0, mode |-> "other"]

-----------------------------------------------------------------------------
(* split_argv *)

\* The arguments the option at i takes with it.
Consumed(s, i) == IF s[i].eq \/ i = Len(s) \/ s[i + 1].dash THEN 1 ELSE 2

\* One turn of the loop, at the argument x.at.
SplitTurn(s, x) ==
    IF x.at > Len(s) THEN x
    ELSE IF s[x.at].opts = {} THEN [at |-> x.at + 1, rest |-> Append(x.rest, s[x.at]), filter |-> x.filter]
    ELSE LET next == x.at + Consumed(s, x.at)
         IN [at |-> next, rest |-> x.rest, filter |-> x.filter \o SubSeq(s, x.at, next - 1)]

SplitArgv(s) ==
    LET turn[k \in Nat] == IF k = 0 THEN [at |-> 1, rest |-> <<>>, filter |-> <<>>] ELSE SplitTurn(s, turn[k - 1])
    IN turn[Len(s)]

-----------------------------------------------------------------------------
(* The parsers.  Stored is the filter's memory afterwards, also when the   *)
(* value was refused.                                                      *)

AllBits(c) == IF c \in {"ip_src", "ip_dst"} THEN 0..(2 * Half - 1) ELSE 0..(Half - 1)

Refused(o, v) ==
    \/ o \in Addresses /\ v.bad # "no"
    \/ o \in (Masked \ Addresses) \cup Times \cup {"ip_proto"} /\ v.bad = "value"

\* parse_inet_addr.
StoredInet(f, o, v) ==
    LET mask == IF v.has_mask THEN v.mask ELSE AllBits(o)
    IN IF v.bad = "value" THEN f
       ELSE IF v.bad = "mask" THEN [f EXCEPT !.val[o] = v.val]
       ELSE [f EXCEPT !.val[o] = v.val \cap mask, !.mask[o] = mask]

\* parse_port: a mask that is no number is 0.
StoredPort(f, o, v) ==
    LET mask == IF v.bad = "mask" THEN {} ELSE IF v.has_mask THEN v.mask ELSE AllBits(o)
    IN [f EXCEPT !.mask[o] = mask, !.val[o] = IF v.bad = "value" THEN @ ELSE v.val \cap mask]

\* parse_eth_addr reads two Ethernet addresses as parse_inet_addr does two others.
StoredEthAddr(f, o, v) == StoredInet(f, o, v)

\* parse_eth_type reads a name or a number, and a mask as parse_port does.
StoredEthType(f, v) == StoredPort(f, "eth_type", v)

\* parse_ip_proto.
StoredProto(f, v) == [f EXCEPT !.ip_proto = IF v.bad = "value" THEN @ ELSE v.name]

\* bpf_set: a program that does not compile fails filter_from_argv.
BpfSet(f, v) == [f EXCEPT !.bpf = @ \/ v.bad = "no"]

\* parse_vlan: the value is not masked, and a bad mask is no mask.
StoredVlan(f, v) ==
    [f EXCEPT !.mask["vlan"] = IF v.has_mask /\ v.bad = "no" THEN v.mask ELSE AllBits("vlan"),
              !.val["vlan"] = IF v.bad = "value" THEN @ ELSE v.val]

\* timepico_from_string: a text that is no time leaves 0.
StoredTime(v) ==
    IF v.bad = "value" THEN NoTime ELSE timepico_from_string(v.sec, v.frac, v.digits, Digits)

\* One part of parse_frame_range: "7", "3-7", "-7", "3-", or a bad one.
FrameRange(r) ==
    CASE r.form = "single" -> <<[lower |-> r.a, upper |-> r.a]>>
      [] r.form = "both"   -> <<[lower |-> r.a, upper |-> r.b]>>
      [] r.form = "upper"  -> <<[lower |-> -1, upper |-> r.b]>>
      [] r.form = "lower"  -> <<[lower |-> r.a, upper |-> -1]>>
      [] r.form = "bad"    -> <<>>

\* One turn of its loop.
RangeTurn(s, x) ==
    IF x.at > Len(s) THEN x ELSE [at |-> x.at + 1, list |-> x.list \o FrameRange(s[x.at])]

\* parse_frame_range.  A list that is given again replaces the first one.
FrameRanges(s) ==
    LET turn[k \in Nat] == IF k = 0 THEN [at |-> 1, list |-> <<>>] ELSE RangeTurn(s, turn[k - 1])
    IN turn[Len(s)].list

StoredRanges(f, v) ==
    [f EXCEPT !.frame_num = IF FrameRanges(v.ranges) = <<>> THEN @ ELSE FrameRanges(v.ranges)]

Stored(f, o, v) ==
    CASE o \in {"ip_src", "ip_dst"}   -> StoredInet(f, o, v)
      [] o \in {"eth_src", "eth_dst"} -> StoredEthAddr(f, o, v)
      [] o \in {"src_port", "dst_port", "port"} -> StoredPort(f, o, v)
      [] o = "eth_type"         -> StoredEthType(f, v)
      [] o = "vlan"             -> StoredVlan(f, v)
      [] o = "ip_proto"         -> StoredProto(f, v)
      [] o = "iface"            -> [f EXCEPT !.iface = v.name]
      [] o = "mampid"           -> [f EXCEPT !.mampid = v.name]
      [] o = "start_time"       -> [f EXCEPT !.start_time = StoredTime(v)]
      [] o = "end_time"         -> [f EXCEPT !.end_time = StoredTime(v)]
      [] o = "frame_max_dt"     -> [f EXCEPT !.frame_max_dt = StoredTime(v)]
      [] o = "frame_num"        -> StoredRanges(f, v)
      [] o = "caplen"           -> [f EXCEPT !.caplen = v.n]
      [] o = "mode"             -> [f EXCEPT !.mode = IF v.mode = "other" THEN @ ELSE v.mode]
      [] o = "bpf"              -> BpfSet(f, v)

\* Mutant of SetOption: the bit is set for a refused value too.
SetOptionAlways(f, o, v) ==
    [Stored(f, o, v) EXCEPT !.index = IF o \in Criteria THEN @ \cup {o} ELSE @]

\* One turn of the loop of filter_from_argv.
SetOption(f, o, v) ==
    [Stored(f, o, v) EXCEPT !.index = IF o \in Criteria /\ ~Refused(o, v) THEN @ \cup {o} ELSE @]

\* filter_*_set and filter_*_aton: the bit is set whatever the parser says.
FilterSet(f, o, v) == [Stored(f, o, v) EXCEPT !.index = @ \cup {o}]

\* One turn of the loop over getopt_long, at the argument x.at: an option without
\* '=' takes the argument that follows, be it an option; words left over are passed by.
GetoptTurn(s, x) ==
    LET t == s[x.at]
        next == x.at + IF t.eq THEN 1 ELSE 2
        o == CHOOSE y \in t.opts : TRUE
        v == IF t.eq THEN t.val ELSE IF s[x.at + 1].opts = {} THEN s[x.at + 1].val ELSE Junk
    IN IF x.at > Len(s) \/ x.ret # 0 THEN x
       ELSE IF t.opts = {} THEN [at |-> x.at + 1, ret |-> 0, filter |-> x.filter]
       ELSE IF Cardinality(t.opts) > 1 \/ next > Len(s) + 1 \/ (o = "bpf" /\ v.bad # "no")
       THEN [at |-> x.at, ret |-> 1, filter |-> x.filter]
       ELSE [at |-> next, ret |-> 0, filter |-> SetOption(x.filter, o, v)]

GetoptLoop(f, s) ==
    LET turn[k \in Nat] == IF k = 0 THEN [at |-> 1, ret |-> 0, filter |-> f] ELSE GetoptTurn(s, turn[k - 1])
    IN turn[Len(s)]

\* filter_from_argv: the status, the filter, and the arguments left for the tool.
FilterFromArgv(argv) ==
    LET part == SplitArgv(argv)
        loop == GetoptLoop(InitFilter, part.filter)
    IN [ret |-> loop.ret, filter |-> loop.filter, rest |-> part.rest]
=============================================================================
