------------------------- MODULE CaptureToolsProofs -------------------------
(***************************************************************************)
(* Proofs about filters and the tools that read through one.               *)
(***************************************************************************)
EXTENDS CaptureTools, WellFoundedInduction, TLAPS

\* Zenon, then SMT, unless a step says otherwise, with time for the larger steps.
USE ZenonT(10), SMTT(30)

-----------------------------------------------------------------------------
(* Loops.  The turns of a loop are a recursive function of their number, and *)
(* each is a function g of the state the turn before it left.                *)

\* A set of numbers has a least.
LEMMA LeastNumber ==
    ASSUME NEW S, S \subseteq Nat, S # {}
    PROVE  \E x \in S : \A y \in S : x <= y
<1>1. PICK x \in S : \A y \in S : ~(<<y, x>> \in OpToRel(<, Nat))
  BY WFMin, NatLessThanWellFounded
<1>2. ASSUME NEW y \in S PROVE x <= y
  <2>1. ~(y < x)
    BY <1>1 DEF OpToRel
  <2> QED
    BY <2>1
<1> QED
  BY <1>2

\* The first n turns.
Chain(t, S, a, g, n) == t \in [0..n -> S] /\ t[0] = a /\ \A i \in 1..n : t[i] = g[t[i - 1]]

\* A loop makes as many turns as one asks for.
LEMMA ChainExists ==
    ASSUME NEW S, NEW a \in S, NEW g \in [S -> S], NEW n \in Nat
    PROVE  \E t : Chain(t, S, a, g, n)
<1> DEFINE Bad == {m \in Nat : ~\E t : Chain(t, S, a, g, m)}
<1>1. Bad = {}
  <2> SUFFICES ASSUME Bad # {} PROVE FALSE
    OBVIOUS
  <2>1. PICK m \in Bad : \A k \in Bad : m <= k
    <3>1. Bad \subseteq Nat
      OBVIOUS
    <3> HIDE DEF Bad
    <3> QED
      BY <3>1, LeastNumber
  <2>2. m # 0
    <3>1. Chain([i \in 0..0 |-> a], S, a, g, 0)
      BY DEF Chain
    <3> QED
      BY <3>1
  <2>3. m \in Nat /\ m - 1 \in Nat /\ m - 1 \notin Bad
    BY <2>1, <2>2
  <2>4. PICK t : Chain(t, S, a, g, m - 1)
    BY <2>3
  <2> DEFINE u == [i \in 0..m |-> IF i < m THEN t[i] ELSE g[t[m - 1]]]
  <2>5. /\ t \in [0..(m - 1) -> S] /\ t[0] = a /\ \A i \in 1..(m - 1) : t[i] = g[t[i - 1]]
        /\ t[m - 1] \in S /\ g[t[m - 1]] \in S
    BY <2>3, <2>4, SMTT(30) DEF Chain
  <2>6. u \in [0..m -> S] /\ u[0] = a
    BY <2>2, <2>3, <2>5, SMTT(30)
  <2>7. ASSUME NEW i \in 1..m PROVE u[i] = g[u[i - 1]]
    <3>1. i \in 0..m /\ i - 1 \in 0..m /\ i - 1 < m /\ (i < m => i \in 1..(m - 1)) /\ (~(i < m) => i = m)
      BY <2>3
    <3>2. u[i - 1] = t[i - 1] /\ u[i] = IF i < m THEN t[i] ELSE g[t[m - 1]]
      BY <3>1
    <3> HIDE DEF u
    <3> QED
      BY <2>5, <3>1, <3>2
  <2>8. Chain(u, S, a, g, m)
    <3> HIDE DEF u
    <3> QED
      BY <2>6, <2>7 DEF Chain
  <2> QED
    BY <2>1, <2>8
<1> QED
  BY <1>1

\* Two runs of a loop agree on the turns both make.
LEMMA ChainsAgree ==
    ASSUME NEW S, NEW a, NEW g, NEW n \in Nat, NEW m \in Nat, NEW t, NEW u,
           Chain(t, S, a, g, n), Chain(u, S, a, g, m), NEW k \in Nat, k <= n, k <= m
    PROVE  t[k] = u[k]
<1> DEFINE Bad == {i \in Nat : i <= n /\ i <= m /\ t[i] # u[i]}
<1>1. Bad = {}
  <2> SUFFICES ASSUME Bad # {} PROVE FALSE
    OBVIOUS
  <2>1. PICK i \in Bad : \A j \in Bad : i <= j
    <3>1. Bad \subseteq Nat
      OBVIOUS
    <3> HIDE DEF Bad
    <3> QED
      BY <3>1, LeastNumber
  <2>2. i # 0
    BY DEF Chain
  <2>3. i - 1 \in Nat /\ i - 1 \notin Bad /\ i \in 1..n /\ i \in 1..m
    BY <2>1, <2>2
  <2>4. t[i - 1] = u[i - 1]
    BY <2>3
  <2>5. t[i] = g[t[i - 1]] /\ u[i] = g[u[i - 1]]
    BY <2>3 DEF Chain
  <2> QED
    BY <2>1, <2>4, <2>5
<1> QED
  BY <1>1

\* All turns.
Turns(t, S, a, g) == t \in [Nat -> S] /\ t[0] = a /\ \A n \in Nat \ {0} : t[n] = g[t[n - 1]]

\* The turns of a loop exist.
LEMMA Iterates ==
    ASSUME NEW S, NEW a \in S, NEW g \in [S -> S]
    PROVE  \E t : Turns(t, S, a, g)
<1> DEFINE C(n) == CHOOSE t : Chain(t, S, a, g, n)
           F == [n \in Nat |-> C(n)[n]]
<1>1. ASSUME NEW n \in Nat PROVE Chain(C(n), S, a, g, n)
  BY ChainExists
<1> HIDE DEF C
<1>2. F \in [Nat -> S]
  <2>1. ASSUME NEW n \in Nat PROVE C(n)[n] \in S
    BY <1>1, SMTT(30) DEF Chain
  <2> QED
    BY <2>1
<1>3. F[0] = a
  BY <1>1 DEF Chain
<1>4. ASSUME NEW n \in Nat \ {0} PROVE F[n] = g[F[n - 1]]
  <2> DEFINE m == n - 1
             p == C(n)
             q == C(m)
  <2>1. m \in Nat /\ m <= n /\ m <= m /\ n \in 1..n /\ n - 1 = m
    OBVIOUS
  <2>2. Chain(p, S, a, g, n) /\ Chain(q, S, a, g, m)
    BY <1>1, <2>1
  <2>3. F[n] = p[n] /\ F[m] = q[m]
    BY <2>1
  <2> HIDE DEF m, p, q, F
  <2>4. p[m] = q[m]
    BY <2>1, <2>2, ChainsAgree, SMTT(30)
  <2>5. p[n] = g[p[m]]
    BY <2>1, <2>2 DEF Chain
  <2>6. F[n - 1] = F[m]
    BY <2>1
  <2> QED
    BY <2>3, <2>4, <2>5, <2>6
<1> HIDE DEF F
<1> QED
  BY <1>2, <1>3, <1>4 DEF Turns

\* Every turn leaves a state of the loop.
LEMMA TurnsType ==
    ASSUME NEW S, NEW t, t[0] \in S, \A n \in Nat \ {0} : t[n - 1] \in S => t[n] \in S, NEW k \in Nat
    PROVE  t[k] \in S
<1> DEFINE Bad == {n \in Nat : t[n] \notin S}
<1>1. Bad = {}
  <2> SUFFICES ASSUME Bad # {} PROVE FALSE
    OBVIOUS
  <2>1. PICK n \in Bad : \A m \in Bad : n <= m
    <3>1. Bad \subseteq Nat
      OBVIOUS
    <3> HIDE DEF Bad
    <3> QED
      BY <3>1, LeastNumber
  <2>2. n \in Nat \ {0} /\ t[n] \notin S
    OBVIOUS
  <2>3. n - 1 \in Nat /\ n - 1 \notin Bad
    BY <2>1, <2>2
  <2> QED
    BY <2>2, <2>3
<1> QED
  BY <1>1

\* A time of the command line, and a range of frame numbers.
TimeValues == [sec : Nat, psec : Int]
FrameNodes == [lower : Int, upper : Int]

\* struct filter, of which only the fields matter.
Filters ==
    [index : SUBSET Criteria, mode : {"AND", "OR"}, val : [Masked -> SUBSET Nat], mask : [Masked -> SUBSET Nat],
     ip_proto : Names, iface : Names, mampid : Names, start_time : TimeValues, end_time : TimeValues,
     frame_max_dt : TimeValues, frame_num : Seq(FrameNodes), bpf : BOOLEAN, caplen : Int,
     first : BOOLEAN, frame_counter : Nat, frame_last_ts : Timepico]

\* The fields the tests of the criteria on the wire look at are the same.
Alike(f, g) ==
    /\ g.index = f.index /\ g.mode = f.mode /\ g.ip_proto = f.ip_proto /\ g.iface = f.iface /\ g.bpf = f.bpf
    /\ \A c \in Masked \ {"port"} : g.val[c] = f.val[c] /\ g.mask[c] = f.mask[c]

\* filter_unpack restores from what filter_pack wrote all fields but the port.
LEMMA WireAlike ==
    ASSUME NEW f \in Filters, NEW d \in Filters, d.bpf = f.bpf
    PROVE  Alike(f, FilterUnpack(FilterPack(f), d))
<1> DEFINE w == FilterPack(f)
           u == FilterUnpack(w, d)
<1>1. /\ w.version = 2 /\ w.index = f.index /\ w.mode = f.mode /\ w.val = f.val /\ w.mask = f.mask
      /\ w.ip_proto = f.ip_proto /\ w.iface = f.iface
  BY DEF FilterPack
<1> HIDE DEF w
<1>2. u.index = w.index /\ u.ip_proto = w.ip_proto /\ u.iface = w.iface /\ u.bpf = d.bpf
  BY DEF FilterUnpack, Filters
<1>3. u.mode = w.mode
  BY <1>1, SMTT(30) DEF FilterUnpack, Filters
<1>4. \A c \in Masked \ {"port"} : u.val[c] = w.val[c]
  BY <1>1, SMTT(30) DEF FilterUnpack, Filters
<1>5. \A c \in Masked \ {"port"} : u.mask[c] = w.mask[c]
  BY <1>1, SMTT(30) DEF FilterUnpack, Filters
<1> HIDE DEF u
<1>6. Alike(f, u)
  BY <1>1, <1>2, <1>3, <1>4, <1>5 DEF Alike
<1> QED
  BY <1>6 DEF u, w

\* The first packet changes none of them.
LEMMA FirstAlike ==
    ASSUME NEW f \in Filters, NEW p
    PROVE  Alike(f, FirstSeen(f, p))
BY DEF FirstSeen, Alike, Filters

\* What filter_unpack leaves is a filter.
LEMMA UnpackedFilter ==
    ASSUME NEW f \in Filters, NEW d \in Filters
    PROVE  FilterUnpack(FilterPack(f), d) \in Filters
<1> DEFINE w == FilterPack(f)
           val == [c \in Masked |-> IF c = "port" THEN d.val[c]
                                    ELSE IF w.version = 0 /\ c \in {"ip_src", "ip_dst"} THEN w.text[c].val ELSE w.val[c]]
           mask == [c \in Masked |-> IF c = "port" THEN d.mask[c]
                                     ELSE IF w.version = 0 /\ c \in {"ip_src", "ip_dst"} THEN w.text[c].mask ELSE w.mask[c]]
           mode == IF w.version >= 2 THEN w.mode ELSE "AND"
<1>1. /\ w.version = 2 /\ w.index \in SUBSET Criteria /\ w.mode \in {"AND", "OR"}
      /\ w.val \in [Masked -> SUBSET Nat] /\ w.mask \in [Masked -> SUBSET Nat]
      /\ w.ip_proto \in Names /\ w.iface \in Names /\ w.caplen \in Int
  BY DEF FilterPack, Filters
<1>2. FilterUnpack(w, d) = [d EXCEPT !.index = w.index, !.mode = mode, !.val = val, !.mask = mask,
                                     !.ip_proto = w.ip_proto, !.iface = w.iface, !.caplen = w.caplen, !.frame_num = <<>>]
  BY DEF FilterUnpack
<1> HIDE DEF w
<1>3. mode \in {"AND", "OR"}
  BY <1>1
<1>4. val \in [Masked -> SUBSET Nat] /\ mask \in [Masked -> SUBSET Nat]
  <2>1. d.val \in [Masked -> SUBSET Nat] /\ d.mask \in [Masked -> SUBSET Nat]
    BY DEF Filters
  <2> QED
    BY <1>1, <2>1, SMTT(30)
<1>5. <<>> \in Seq(FrameNodes)
  OBVIOUS
<1> HIDE DEF mode, val, mask
<1>6. [d EXCEPT !.index = w.index, !.mode = mode, !.val = val, !.mask = mask, !.ip_proto = w.ip_proto,
                !.iface = w.iface, !.caplen = w.caplen, !.frame_num = <<>>] \in Filters
  BY <1>1, <1>3, <1>4, <1>5 DEF Filters
<1> QED
  BY <1>2, <1>6 DEF w

\* Each test of a criterion on the wire has the same outcome.
LEMMA AlikeMatches ==
    ASSUME NEW f, NEW g, Alike(f, g), NEW p, NEW c \in Criteria \ Unsent
    PROVE  Matches(f, p)[c] = Matches(g, p)[c]
<1>1. ASSUME NEW x, c \in Masked PROVE Test(f, c, x) = Test(g, c, x)
  BY <1>1 DEF Alike, Test, Unsent
<1>2. f.ip_proto = g.ip_proto /\ f.iface = g.iface
  BY DEF Alike
<1>3. c \in {"dst_port", "src_port", "ip_dst", "ip_src", "eth_dst", "eth_src", "eth_type", "vlan", "ip_proto", "iface"}
  BY DEF Criteria, Masked, Unsent
<1> QED
  BY <1>1, <1>2, <1>3, SMTT(30) DEF Matches, Criteria, Masked

\* Filters that are alike decide alike.
LEMMA AlikeCore ==
    ASSUME NEW f, NEW g, Alike(f, g), f.index \subseteq Criteria \ Unsent, NEW p
    PROVE  FilterCore(f, p) = FilterCore(g, p)
<1>1. f.index = g.index /\ f.mode = g.mode
  BY DEF Alike
<1>2. \A c \in f.index : Matches(f, p)[c] = Matches(g, p)[c]
  BY AlikeMatches, SMTT(30)
<1>3. {c \in f.index : Matches(f, p)[c]} = {c \in g.index : Matches(g, p)[c]}
  BY <1>1, <1>2
<1> QED
  BY <1>1, <1>3 DEF FilterCore

-----------------------------------------------------------------------------
\* filter_unpack of what filter_pack wrote gives, on every packet, the verdict of the filter
\* that was sent, unless it uses a criterion that one of the two leaves out.  The BPF
\* program does not travel with the filter.
THEOREM WireVerdict ==
    ASSUME NEW f \in Filters, NEW d \in Filters, d.bpf = f.bpf, f.index \cap Unsent = {}, NEW p
    PROVE  Verdict(FilterUnpack(FilterPack(f), d), p) = Verdict(f, p)
<1> DEFINE u == FilterUnpack(FilterPack(f), d)
           ff == FirstSeen(f, p)
           uu == FirstSeen(u, p)
<1>1. u \in Filters /\ Alike(f, u)
  BY UnpackedFilter, WireAlike
<1> HIDE DEF u
<1>2. Alike(f, ff) /\ Alike(u, uu)
  BY <1>1, FirstAlike
<1> HIDE DEF ff, uu
<1>3. Alike(ff, uu)
  BY <1>1, <1>2 DEF Alike
<1>4. ff.index \subseteq Criteria \ Unsent
  BY <1>2 DEF Alike, Filters
<1>5. FilterCore(ff, p) = FilterCore(uu, p)
  BY <1>3, <1>4, AlikeCore
<1>6. ff.index = uu.index /\ ff.bpf = uu.bpf
  BY <1>3 DEF Alike
<1>7. Verdict(f, p) = ((ff.index = {} \/ FilterCore(ff, p)) /\ (ff.bpf => p.bpf))
  BY DEF Verdict, ff
<1>8. Verdict(u, p) = ((uu.index = {} \/ FilterCore(uu, p)) /\ (uu.bpf => p.bpf))
  BY DEF Verdict, uu
<1>9. Verdict(u, p) = Verdict(f, p)
  BY <1>5, <1>6, <1>7, <1>8
<1> QED
  BY <1>9 DEF u
-----------------------------------------------------------------------------
(* What the parsers leave is a filter that has seen no packet.               *)

\* The filter has seen no packet.
Unused(f) == f.first = TRUE /\ f.frame_counter = 1

\* The parsers touch neither the index nor what filter_match keeps.
Keeps(f, g) == g.index = f.index /\ g.first = f.first /\ g.frame_counter = f.frame_counter

\* filter_init.
LEMMA InitFilterType == InitFilter \in Filters /\ Unused(InitFilter) /\ InitFilter.bpf = FALSE
<1>1. NoTime \in TimeValues /\ NoTime \in Timepico
  BY DEF NoTime, timepico_new, TimeValues, Timepico
<1>2. <<>> \in Seq(FrameNodes) /\ {} \in SUBSET Criteria /\ -1 \in Int /\ 1 \in Nat
  OBVIOUS
<1>3. [c \in Masked |-> {}] \in [Masked -> SUBSET Nat]
  OBVIOUS
<1>4. "none" \in Names
  BY DEF Names
<1> QED
  BY <1>1, <1>2, <1>3, <1>4 DEF InitFilter, Filters, Unused

\* A time, read or not.
LEMMA StoredTimeType ==
    ASSUME NEW v \in Values
    PROVE  StoredTime(v) \in TimeValues
<1>1. v.sec \in Nat /\ v.frac \in Nat /\ v.digits \in Nat
  BY DEF Values
<1>2. NoTime \in TimeValues
  BY DEF NoTime, timepico_new, TimeValues
<1>3. timepico_from_string(v.sec, v.frac, v.digits, Digits) \in TimeValues
  <2> DEFINE n == Digits - v.digits
  <2>1. ASSUME v.digits < Digits PROVE v.frac * 10^n \in Int
    <3>1. n \in Nat
      BY <1>1, <2>1, DigitsAssumption
    <3> HIDE DEF n
    <3> QED
      BY <1>1, <3>1
  <2>2. timepico_from_string(v.sec, v.frac, v.digits, Digits) =
          [sec |-> v.sec, psec |-> IF v.digits < Digits THEN v.frac * 10^n ELSE v.frac]
    BY DEF timepico_from_string
  <2> HIDE DEF n
  <2>3. (IF v.digits < Digits THEN v.frac * 10^n ELSE v.frac) \in Int
    BY <1>1, <2>1
  <2> QED
    BY <1>1, <2>2, <2>3 DEF TimeValues
<1> QED
  BY <1>2, <1>3 DEF StoredTime

\* One part of --frame-num.
LEMMA FrameRangeType ==
    ASSUME NEW r \in Ranges
    PROVE  FrameRange(r) \in Seq(FrameNodes)
<1>1. r.a \in Int /\ r.b \in Int /\ -1 \in Int /\ r.form \in {"single", "both", "upper", "lower", "bad"}
  BY SMTT(30) DEF Ranges
<1>2. ASSUME NEW a \in Int, NEW b \in Int PROVE <<[lower |-> a, upper |-> b]>> \in Seq(FrameNodes)
  BY DEF FrameNodes
<1>3. <<>> \in Seq(FrameNodes)
  OBVIOUS
<1> QED
  BY <1>1, <1>2, <1>3 DEF FrameRange

\* The list of ranges.
LEMMA FrameRangesType ==
    ASSUME NEW s \in Seq(Ranges)
    PROVE  FrameRanges(s) \in Seq(FrameNodes)
<1> DEFINE S == [at : Nat \ {0}, list : Seq(FrameNodes)]
           a == [at |-> 1, list |-> <<>>]
           g == [x \in S |-> RangeTurn(s, x)]
           Turn(t) == [k \in Nat |-> IF k = 0 THEN a ELSE RangeTurn(s, t[k - 1])]
           T == CHOOSE t : t = Turn(t)
<1>1. a \in S
  OBVIOUS
<1>2. ASSUME NEW x \in S PROVE RangeTurn(s, x) \in S
  <2>1. x.at \in Nat \ {0} /\ x.list \in Seq(FrameNodes)
    OBVIOUS
  <2>2. CASE x.at > Len(s)
    BY <2>2 DEF RangeTurn
  <2>3. CASE ~(x.at > Len(s))
    <3>1. s[x.at] \in Ranges
      BY <2>1, <2>3
    <3>2. FrameRange(s[x.at]) \in Seq(FrameNodes)
      BY <3>1, FrameRangeType
    <3>3. x.list \o FrameRange(s[x.at]) \in Seq(FrameNodes)
      BY <2>1, <3>2, SMTT(30)
    <3> QED
      BY <2>1, <2>3, <3>3, SMTT(30) DEF RangeTurn
  <2> QED
    BY <2>2, <2>3
<1>3. g \in [S -> S]
  BY <1>2
<1> HIDE DEF S, a
<1>4. \E t : t = Turn(t)
  <2>1. PICK t : Turns(t, S, a, g)
    <3> HIDE DEF g
    <3> QED
      BY <1>1, <1>3, Iterates
  <2>2. ASSUME NEW n \in Nat PROVE t[n] = IF n = 0 THEN a ELSE RangeTurn(s, t[n - 1])
    <3>1. CASE n = 0
      BY <2>1, <3>1 DEF Turns
    <3>2. CASE n # 0
      <4>1. n \in Nat \ {0} /\ n - 1 \in Nat
        BY <3>2
      <4>2. t[n - 1] \in S
        BY <2>1, <4>1 DEF Turns
      <4> QED
        BY <2>1, <3>2, <4>1, <4>2 DEF g, Turns
    <3> QED
      BY <3>1, <3>2
  <2>3. t = Turn(t)
    BY <2>1, <2>2 DEF Turns
  <2> QED
    BY <2>3
<1>5. T = Turn(T)
  <2> HIDE DEF Turn
  <2> QED
    BY <1>4
<1> HIDE DEF T, g
<1>6. \A n \in Nat : T[n] = IF n = 0 THEN a ELSE RangeTurn(s, T[n - 1])
  BY <1>5
<1>7. Len(s) \in Nat /\ T[0] \in S /\ \A n \in Nat \ {0} : T[n - 1] \in S => T[n] \in S
  BY <1>1, <1>2, <1>6, SMTT(30)
<1>8. T[Len(s)] \in S
  BY <1>7, TurnsType
<1>9. FrameRanges(s) = T[Len(s)].list
  BY DEF FrameRanges, T, a
<1> QED
  BY <1>8, <1>9 DEF S

\* The memory of the filter behind a parser.
LEMMA StoredType ==
    ASSUME NEW f \in Filters, NEW o \in Options, NEW v \in Values
    PROVE  Stored(f, o, v) \in Filters /\ Keeps(f, Stored(f, o, v)) /\ (o # "bpf" => Stored(f, o, v).bpf = f.bpf)
<1>1. /\ v.val \in SUBSET Nat /\ v.mask \in SUBSET Nat /\ v.name \in Names /\ v.ranges \in Seq(Ranges)
      /\ v.n \in Int /\ v.mode \in {"AND", "OR", "other"}
  BY SMTT(30) DEF Values
<1>2. StoredTime(v) \in TimeValues /\ FrameRanges(v.ranges) \in Seq(FrameNodes)
  BY <1>1, StoredTimeType, FrameRangesType
<1>3. AllBits(o) \in SUBSET Nat
  BY SMTT(30) DEF AllBits
<1>4. Keeps(f, f)
  BY DEF Keeps
<1>5. f.mode \in {"AND", "OR"} /\ f.ip_proto \in Names /\ f.frame_num \in Seq(FrameNodes) /\ f.bpf \in BOOLEAN
      /\ \A c \in Masked : f.val[c] \in SUBSET Nat
  BY DEF Filters
<1> DEFINE Good(g) == g \in Filters /\ Keeps(f, g) /\ g.bpf = f.bpf
<1>6. CASE o \in {"ip_src", "ip_dst", "eth_src", "eth_dst"}
  <2> DEFINE mask == IF v.has_mask THEN v.mask ELSE AllBits(o)
             val == v.val \cap mask
  <2>1. mask \in SUBSET Nat /\ val \in SUBSET Nat
    BY <1>1, <1>3
  <2>2. o \in Masked
    BY <1>6 DEF Masked
  <2>3. StoredInet(f, o, v) = IF v.bad = "value" THEN f
                              ELSE IF v.bad = "mask" THEN [f EXCEPT !.val[o] = v.val]
                              ELSE [f EXCEPT !.val[o] = val, !.mask[o] = mask]
    BY DEF StoredInet
  <2> HIDE DEF mask, val
  <2>4. Good([f EXCEPT !.val[o] = v.val]) /\ Good([f EXCEPT !.val[o] = val, !.mask[o] = mask]) /\ Good(f)
    BY <1>1, <1>4, <2>1, <2>2 DEF Filters, Keeps
  <2> HIDE DEF Good
  <2>5. Good(StoredInet(f, o, v))
    BY <2>3, <2>4
  <2>6. Stored(f, o, v) = StoredInet(f, o, v)
    BY <1>6 DEF Stored, StoredEthAddr
  <2> QED
    BY <2>5, <2>6 DEF Good
<1>7. CASE o \in {"src_port", "dst_port", "port", "eth_type"}
  <2> DEFINE mask == IF v.bad = "mask" THEN {} ELSE IF v.has_mask THEN v.mask ELSE AllBits(o)
             val == IF v.bad = "value" THEN f.val[o] ELSE v.val \cap mask
  <2>1. o \in Masked
    BY <1>7 DEF Masked
  <2>2. mask \in SUBSET Nat /\ val \in SUBSET Nat
    BY <1>1, <1>3, <1>5, <2>1
  <2>3. StoredPort(f, o, v) = [f EXCEPT !.mask[o] = mask, !.val[o] = val]
    BY DEF StoredPort
  <2> HIDE DEF mask, val
  <2>4. Good([f EXCEPT !.mask[o] = mask, !.val[o] = val])
    BY <2>1, <2>2 DEF Filters, Keeps
  <2> HIDE DEF Good
  <2>5. Stored(f, o, v) = StoredPort(f, o, v)
    BY <1>7 DEF Stored, StoredEthType
  <2>6. Good(Stored(f, o, v))
    BY <2>3, <2>4, <2>5
  <2> QED
    BY <2>6 DEF Good
<1>8. CASE o = "vlan"
  <2> DEFINE mask == IF v.has_mask /\ v.bad = "no" THEN v.mask ELSE AllBits("vlan")
             val == IF v.bad = "value" THEN f.val["vlan"] ELSE v.val
  <2>1. "vlan" \in Masked
    BY DEF Masked
  <2>2. mask \in SUBSET Nat /\ val \in SUBSET Nat
    BY <1>1, <1>3, <1>5, <1>8, <2>1
  <2>3. StoredVlan(f, v) = [f EXCEPT !.mask["vlan"] = mask, !.val["vlan"] = val]
    BY DEF StoredVlan
  <2> HIDE DEF mask, val
  <2>4. Good([f EXCEPT !.mask["vlan"] = mask, !.val["vlan"] = val])
    <3> DEFINE c == "vlan"
    <3> HIDE DEF c
    <3>1. c \in Masked
      BY <2>1 DEF c
    <3>2. Good([f EXCEPT !.mask[c] = mask, !.val[c] = val])
      BY <2>2, <3>1 DEF Filters, Keeps
    <3> QED
      BY <3>2 DEF c
  <2> HIDE DEF Good
  <2>5. Stored(f, o, v) = StoredVlan(f, v)
    BY <1>8 DEF Stored
  <2>6. Good(Stored(f, o, v))
    BY <2>3, <2>4, <2>5
  <2> QED
    BY <2>6 DEF Good
<1>9. CASE o = "ip_proto"
  <2> DEFINE x == IF v.bad = "value" THEN f.ip_proto ELSE v.name
  <2>1. x \in Names
    BY <1>1, <1>5
  <2>2. StoredProto(f, v) = [f EXCEPT !.ip_proto = x]
    BY DEF StoredProto
  <2> HIDE DEF x
  <2>3. Stored(f, o, v) = StoredProto(f, v)
    BY <1>9 DEF Stored
  <2>4. Good([f EXCEPT !.ip_proto = x])
    BY <2>1 DEF Filters, Keeps
  <2> HIDE DEF Good
  <2>5. Good(Stored(f, o, v))
    BY <2>2, <2>3, <2>4
  <2> QED
    BY <2>5 DEF Good
<1>10. CASE o = "iface"
  <2>1. Stored(f, o, v) = [f EXCEPT !.iface = v.name]
    BY <1>10 DEF Stored
  <2> QED
    BY <1>1, <2>1 DEF Filters, Keeps
<1>11. CASE o = "mampid"
  <2>1. Stored(f, o, v) = [f EXCEPT !.mampid = v.name]
    BY <1>11 DEF Stored
  <2> QED
    BY <1>1, <2>1 DEF Filters, Keeps
<1>12. CASE o = "start_time"
  <2>1. Stored(f, o, v) = [f EXCEPT !.start_time = StoredTime(v)]
    BY <1>12 DEF Stored
  <2> QED
    BY <1>2, <2>1 DEF Filters, Keeps
<1>13. CASE o = "end_time"
  <2>1. Stored(f, o, v) = [f EXCEPT !.end_time = StoredTime(v)]
    BY <1>13 DEF Stored
  <2> QED
    BY <1>2, <2>1 DEF Filters, Keeps
<1>14. CASE o = "frame_max_dt"
  <2>1. Stored(f, o, v) = [f EXCEPT !.frame_max_dt = StoredTime(v)]
    BY <1>14 DEF Stored
  <2> QED
    BY <1>2, <2>1 DEF Filters, Keeps
<1>15. CASE o = "frame_num"
  <2> DEFINE x == IF FrameRanges(v.ranges) = <<>> THEN f.frame_num ELSE FrameRanges(v.ranges)
  <2>1. x \in Seq(FrameNodes)
    BY <1>2, <1>5
  <2>2. StoredRanges(f, v) = [f EXCEPT !.frame_num = x]
    BY DEF StoredRanges
  <2> HIDE DEF x
  <2>3. Stored(f, o, v) = StoredRanges(f, v)
    BY <1>15 DEF Stored
  <2>4. Good([f EXCEPT !.frame_num = x])
    BY <2>1 DEF Filters, Keeps
  <2> HIDE DEF Good
  <2>5. Good(Stored(f, o, v))
    BY <2>2, <2>3, <2>4
  <2> QED
    BY <2>5 DEF Good
<1>16. CASE o = "caplen"
  <2>1. Stored(f, o, v) = [f EXCEPT !.caplen = v.n]
    BY <1>16 DEF Stored
  <2> QED
    BY <1>1, <2>1 DEF Filters, Keeps
<1>17. CASE o = "mode"
  <2> DEFINE x == IF v.mode = "other" THEN f.mode ELSE v.mode
  <2>1. x \in {"AND", "OR"}
    BY <1>1, <1>5
  <2>2. Stored(f, o, v) = [f EXCEPT !.mode = x]
    BY <1>17 DEF Stored
  <2> HIDE DEF x
  <2> QED
    BY <2>1, <2>2 DEF Filters, Keeps
<1>18. CASE o = "bpf"
  <2> DEFINE x == f.bpf \/ v.bad = "no"
  <2>1. x \in BOOLEAN
    OBVIOUS
  <2>2. BpfSet(f, v) = [f EXCEPT !.bpf = x]
    BY DEF BpfSet
  <2> HIDE DEF x
  <2>3. Stored(f, o, v) = BpfSet(f, v)
    BY <1>18 DEF Stored
  <2> DEFINE Typed(g) == g \in Filters /\ Keeps(f, g)
  <2>4. Typed([f EXCEPT !.bpf = x])
    BY <2>1 DEF Filters, Keeps
  <2> HIDE DEF Typed
  <2>5. Typed(Stored(f, o, v))
    BY <2>2, <2>3, <2>4
  <2> QED
    BY <1>18, <2>5 DEF Typed
<1> QED
  BY <1>6, <1>7, <1>8, <1>9, <1>10, <1>11, <1>12, <1>13, <1>14, <1>15, <1>16, <1>17, <1>18
  DEF Options, Criteria, Masked

\* One option of the command line is set.
LEMMA SetOptionType ==
    ASSUME NEW f \in Filters, Unused(f), NEW o \in Options, NEW v \in Values
    PROVE  SetOption(f, o, v) \in Filters /\ Unused(SetOption(f, o, v))
<1> DEFINE g == Stored(f, o, v)
           x == IF o \in Criteria /\ ~Refused(o, v) THEN g.index \cup {o} ELSE g.index
<1>1. g \in Filters /\ Keeps(f, g)
  BY StoredType
<1>2. SetOption(f, o, v) = [g EXCEPT !.index = x]
  BY DEF SetOption
<1> HIDE DEF g
<1>3. x \in SUBSET Criteria
  BY <1>1 DEF Filters
<1> HIDE DEF x
<1> DEFINE h == [g EXCEPT !.index = x]
<1>4. h \in Filters /\ h.first = g.first /\ h.frame_counter = g.frame_counter
  BY <1>1, <1>3 DEF Filters
<1>5. SetOption(f, o, v) = h
  BY <1>2
<1> HIDE DEF h
<1> QED
  BY <1>1, <1>4, <1>5 DEF Unused, Keeps

\* filter_*_set.
LEMMA FilterSetType ==
    ASSUME NEW f \in Filters, f.bpf = FALSE, NEW o \in Criteria, NEW v \in Values
    PROVE  FilterSet(f, o, v) \in Filters /\ FilterSet(f, o, v).bpf = FALSE
<1> DEFINE g == Stored(f, o, v)
           x == g.index \cup {o}
<1>1. g \in Filters /\ g.bpf = f.bpf
  <2>1. o \in Options /\ o # "bpf"
    BY DEF Options, Criteria, Masked
  <2> QED
    BY <2>1, StoredType
<1>2. FilterSet(f, o, v) = [g EXCEPT !.index = x]
  BY DEF FilterSet
<1> HIDE DEF g
<1>3. x \in SUBSET Criteria
  BY <1>1 DEF Filters
<1> HIDE DEF x
<1> DEFINE h == [g EXCEPT !.index = x]
<1>4. h \in Filters /\ h.bpf = g.bpf
  BY <1>1, <1>3 DEF Filters
<1>5. FilterSet(f, o, v) = h
  BY <1>2
<1> HIDE DEF h
<1> QED
  BY <1>1, <1>4, <1>5

\* split_argv takes arguments from the command line.
LEMMA SplitArgvType ==
    ASSUME NEW s \in Seq(Arguments)
    PROVE  SplitArgv(s).filter \in Seq(Arguments)
<1> DEFINE S == [at : Nat \ {0}, rest : Seq(Arguments), filter : Seq(Arguments)]
           a == [at |-> 1, rest |-> <<>>, filter |-> <<>>]
           g == [x \in S |-> SplitTurn(s, x)]
           Turn(t) == [k \in Nat |-> IF k = 0 THEN a ELSE SplitTurn(s, t[k - 1])]
           T == CHOOSE t : t = Turn(t)
<1>1. a \in S
  OBVIOUS
<1>2. ASSUME NEW x \in S PROVE SplitTurn(s, x) \in S
  <2>1. x.at \in Nat \ {0} /\ x.rest \in Seq(Arguments) /\ x.filter \in Seq(Arguments)
    OBVIOUS
  <2>2. CASE x.at > Len(s)
    BY <2>2 DEF SplitTurn
  <2>3. CASE ~(x.at > Len(s)) /\ s[x.at].opts = {}
    <3>1. s[x.at] \in Arguments
      BY <2>1, <2>3
    <3>2. Append(x.rest, s[x.at]) \in Seq(Arguments) /\ x.at + 1 \in Nat \ {0}
      BY <2>1, <3>1, SMTT(30)
    <3> QED
      BY <2>1, <2>3, <3>2 DEF SplitTurn
  <2>4. CASE ~(x.at > Len(s)) /\ s[x.at].opts # {}
    <3> DEFINE n == Consumed(s, x.at)
               next == x.at + n
    <3>1. n \in {1, 2} /\ (n = 2 => x.at # Len(s))
      BY DEF Consumed
    <3> HIDE DEF n
    <3>2. next \in Nat \ {0} /\ next - 1 \in Nat /\ x.at >= 1 /\ next - 1 <= Len(s)
      BY <2>1, <2>4, <3>1, SMTT(30)
    <3>3. SplitTurn(s, x) = [at |-> next, rest |-> x.rest, filter |-> x.filter \o SubSeq(s, x.at, next - 1)]
      BY <2>4 DEF SplitTurn, n
    <3> HIDE DEF next
    <3>4. SubSeq(s, x.at, next - 1) \in Seq(Arguments)
      BY <2>1, <3>2, SMTT(30)
    <3>5. x.filter \o SubSeq(s, x.at, next - 1) \in Seq(Arguments)
      BY <2>1, <3>4, SMTT(30)
    <3> QED
      BY <2>1, <3>2, <3>3, <3>5, SMTT(30)
  <2> QED
    BY <2>2, <2>3, <2>4
<1>3. g \in [S -> S]
  BY <1>2
<1> HIDE DEF S, a
<1>4. \E t : t = Turn(t)
  <2>1. PICK t : Turns(t, S, a, g)
    <3> HIDE DEF g
    <3> QED
      BY <1>1, <1>3, Iterates
  <2>2. ASSUME NEW n \in Nat PROVE t[n] = IF n = 0 THEN a ELSE SplitTurn(s, t[n - 1])
    <3>1. CASE n = 0
      BY <2>1, <3>1 DEF Turns
    <3>2. CASE n # 0
      <4>1. n \in Nat \ {0} /\ n - 1 \in Nat
        BY <3>2
      <4>2. t[n - 1] \in S
        BY <2>1, <4>1 DEF Turns
      <4> QED
        BY <2>1, <3>2, <4>1, <4>2 DEF g, Turns
    <3> QED
      BY <3>1, <3>2
  <2>3. t = Turn(t)
    BY <2>1, <2>2 DEF Turns
  <2> QED
    BY <2>3
<1>5. T = Turn(T)
  <2> HIDE DEF Turn
  <2> QED
    BY <1>4
<1> HIDE DEF T, g
<1>6. \A n \in Nat : T[n] = IF n = 0 THEN a ELSE SplitTurn(s, T[n - 1])
  BY <1>5
<1>7. Len(s) \in Nat /\ T[0] \in S /\ \A n \in Nat \ {0} : T[n - 1] \in S => T[n] \in S
  BY <1>1, <1>2, <1>6, SMTT(30)
<1>8. T[Len(s)] \in S
  BY <1>7, TurnsType
<1>9. SplitArgv(s) = T[Len(s)]
  BY DEF SplitArgv, T, a
<1> QED
  BY <1>8, <1>9 DEF S

\* The loop of filter_from_argv leaves a filter.
LEMMA GetoptType ==
    ASSUME NEW s \in Seq(Arguments)
    PROVE  LET f == GetoptLoop(InitFilter, s).filter IN f \in Filters /\ Unused(f)
<1> DEFINE F == {f \in Filters : Unused(f)}
           S == [at : Nat \ {0}, ret : {0, 1}, filter : F]
           a == [at |-> 1, ret |-> 0, filter |-> InitFilter]
           g == [x \in S |-> GetoptTurn(s, x)]
           Turn(t) == [k \in Nat |-> IF k = 0 THEN a ELSE GetoptTurn(s, t[k - 1])]
           T == CHOOSE t : t = Turn(t)
<1>1. a \in S
  <2>1. InitFilter \in F
    BY InitFilterType
  <2> HIDE DEF F
  <2> QED
    BY <2>1
<1>2. ASSUME NEW x \in S PROVE GetoptTurn(s, x) \in S
  <2> DEFINE t == s[x.at]
             next == x.at + IF t.eq THEN 1 ELSE 2
             o == CHOOSE y \in t.opts : TRUE
             v == IF t.eq THEN t.val ELSE IF s[x.at + 1].opts = {} THEN s[x.at + 1].val ELSE Junk
             good == ~(x.at > Len(s) \/ x.ret # 0) /\ t.opts # {}
                     /\ ~(Cardinality(t.opts) > 1 \/ next > Len(s) + 1 \/ (o = "bpf" /\ v.bad # "no"))
  <2>1. x.at \in Nat \ {0} /\ x.ret \in {0, 1} /\ x.filter \in F
    OBVIOUS
  <2>2. \/ GetoptTurn(s, x) = x
        \/ GetoptTurn(s, x) = [at |-> x.at + 1, ret |-> 0, filter |-> x.filter]
        \/ GetoptTurn(s, x) = [at |-> x.at, ret |-> 1, filter |-> x.filter]
        \/ good /\ GetoptTurn(s, x) = [at |-> next, ret |-> 0, filter |-> SetOption(x.filter, o, v)]
    BY DEF GetoptTurn
  <2>3. x.at + 1 \in Nat \ {0} /\ next \in Nat \ {0}
    BY <2>1, SMTT(30)
  <2>4. ASSUME good PROVE SetOption(x.filter, o, v) \in F
    <3>1. x.at \in 1..Len(s) /\ t.opts # {} /\ (~t.eq => x.at + 1 \in 1..Len(s))
      BY <2>1, <2>4, SMTT(30)
    <3>2. t \in Arguments /\ (~t.eq => s[x.at + 1] \in Arguments)
      BY <3>1, SMTT(30)
    <3>3. o \in Options
      <4>1. t.opts \subseteq Options /\ o \in t.opts
        BY <3>1, <3>2 DEF Arguments
      <4> QED
        BY <4>1
    <3>4. v \in Values
      <4>1. Junk \in Values
        BY SMTT(30) DEF Junk, Values, Names, Ranges
      <4> QED
        BY <3>2, <4>1 DEF Arguments
    <3> HIDE DEF o, v
    <3>5. x.filter \in Filters /\ Unused(x.filter)
      BY <2>1
    <3> QED
      BY <3>3, <3>4, <3>5, SetOptionType
  <2> HIDE DEF F, o, v, next, good
  <2> QED
    BY <2>1, <2>2, <2>3, <2>4, SMTT(30)
<1>3. g \in [S -> S]
  BY <1>2
<1> HIDE DEF S, a
<1>4. \E t : t = Turn(t)
  <2>1. PICK t : Turns(t, S, a, g)
    <3> HIDE DEF g
    <3> QED
      BY <1>1, <1>3, Iterates
  <2>2. ASSUME NEW n \in Nat PROVE t[n] = IF n = 0 THEN a ELSE GetoptTurn(s, t[n - 1])
    <3>1. CASE n = 0
      BY <2>1, <3>1 DEF Turns
    <3>2. CASE n # 0
      <4>1. n \in Nat \ {0} /\ n - 1 \in Nat
        BY <3>2
      <4>2. t[n - 1] \in S
        BY <2>1, <4>1 DEF Turns
      <4> QED
        BY <2>1, <3>2, <4>1, <4>2 DEF g, Turns
    <3> QED
      BY <3>1, <3>2
  <2>3. t = Turn(t)
    BY <2>1, <2>2 DEF Turns
  <2> QED
    BY <2>3
<1>5. T = Turn(T)
  <2> HIDE DEF Turn
  <2> QED
    BY <1>4
<1> HIDE DEF T, g
<1>6. \A n \in Nat : T[n] = IF n = 0 THEN a ELSE GetoptTurn(s, T[n - 1])
  BY <1>5
<1>7. Len(s) \in Nat /\ T[0] \in S /\ \A n \in Nat \ {0} : T[n - 1] \in S => T[n] \in S
  BY <1>1, <1>2, <1>6, SMTT(30)
<1>8. T[Len(s)] \in S
  BY <1>7, TurnsType
<1>9. GetoptLoop(InitFilter, s) = T[Len(s)]
  BY DEF GetoptLoop, T, a
<1>10. T[Len(s)].filter \in F
  BY <1>8 DEF S
<1> QED
  BY <1>9, <1>10

\* filter_from_argv leaves a filter that has seen no packet.
LEMMA ParsedFilter ==
    ASSUME NEW s \in Seq(Arguments)
    PROVE  LET f == FilterFromArgv(s).filter IN f \in Filters /\ Unused(f)
<1> DEFINE t == SplitArgv(s).filter
<1>1. t \in Seq(Arguments)
  BY SplitArgvType
<1>2. FilterFromArgv(s).filter = GetoptLoop(InitFilter, t).filter
  BY DEF FilterFromArgv
<1> HIDE DEF t
<1> QED
  BY <1>1, <1>2, GetoptType
-----------------------------------------------------------------------------
(* The state of a tool.                                                      *)

\* What every step keeps: the filter is one, and there is a verdict for each packet.
HistoryInv ==
    /\ argv \in Seq(Arguments) /\ filter \in Filters
    /\ seen \in Seq(Packets) /\ verdict \in Seq(BOOLEAN) /\ Len(verdict) = Len(seen)

\* A manager's filter has no BPF program, and the one at the measurement point came from it.
WireInv ==
    /\ pc \in {"set", "sent"} => tool = "manager" /\ filter.bpf = FALSE
    /\ pc = "sent" => \E d \in Filters : d.bpf = FALSE /\ peer = FilterUnpack(FilterPack(filter), d)

\* What is written of a packet.
Records == [n : Nat, caplen : Int]

\* s holds the numbers `chosen', in order.
Whole(s, chosen) ==
    /\ {s[k].n : k \in DOMAIN s} = chosen
    /\ \A j, k \in DOMAIN s : j < k => s[j].n < s[k].n

\* What capfilter has written if nothing failed, and no more than it read of a packet.
Placed(s, v, o, r, invert, rejects) ==
    /\ Whole(o, {n \in DOMAIN s : v[n] # invert})
    /\ IF rejects THEN Whole(r, {n \in DOMAIN s : v[n] = invert}) ELSE r = <<>>
Within(s, o, caplen) ==
    \A k \in DOMAIN o : /\ o[k].n \in DOMAIN s /\ o[k].caplen <= s[o[k].n].caplen
                        /\ caplen # -1 => o[k].caplen <= caplen

\* capfilter's files, unless a write failed; behind a failed write it is on its way out.
Copying ==
    /\ out \in Seq(Records) /\ rej \in Seq(Records) /\ read = Len(seen)
    /\ opt.rejects \in BOOLEAN /\ failed \in BOOLEAN
    /\ Within(seen, out, filter.caplen) /\ Within(seen, rej, filter.caplen)
    /\ ~failed => Placed(seen, verdict, out, rej, opt.invert, opt.rejects)
GivingUp == failed => ret = EIO /\ keep_running = FALSE /\ pc \in {"loop", "close", "aborted"}
Empty == pc \in {"start", "open"} => seen = <<>> /\ out = <<>> /\ rej = <<>> /\ ~failed
CopyInv == tool = "capfilter" => (IF pc = "exit" THEN ExitZeroMeansWritten ELSE Copying /\ GivingUp /\ Empty)

\* l is what is left of the ranges r before packet c is tested: a range is dropped when its
\* last packet has passed, and the first one left is not yet past unless it is the last.
RangesLeft(l, r, c) ==
    /\ Len(l) <= Len(r) /\ \A i \in 1..Len(l) : l[i] = r[Len(r) - Len(l) + i]
    /\ \A i \in 1..Len(r) - Len(l) : 0 < r[i].upper /\ r[i].upper < c
    /\ Len(l) > 1 => c <= l[1].upper + 1

\* f is the filter P after the packets s with the verdicts v.
Follows(f, P, s, v) ==
    /\ f.index = P.index /\ f.mode = P.mode /\ f.bpf = P.bpf /\ f.frame_max_dt = P.frame_max_dt
    /\ f.frame_counter = Len(s) + 1 /\ f.first = (s = <<>>)
    /\ Apart(P.frame_num) => RangesLeft(f.frame_num, P.frame_num, Len(s) + 1)
    /\ s # <<>> => f.frame_last_ts = Since(s, v, Len(s) + 1)

\* The verdict on each packet is the one the option alone asks for.
ByNumber(P, s, v) ==
    P.index = {"frame_num"} /\ ~P.bpf /\ Apart(P.frame_num)
    => \A n \in DOMAIN s : v[n] <=> \E i \in DOMAIN P.frame_num : InRange(n, P.frame_num[i])
ByTime(P, s, v) ==
    "frame_max_dt" \in P.index /\ P.mode = "AND" /\ Normal(P.frame_max_dt) /\ InOrder(s)
    => \A n \in DOMAIN s : /\ v[n] => ~Late(s, v, n, P.frame_max_dt)
                           /\ P.index = {"frame_max_dt"} /\ ~P.bpf /\ ~v[n] => Late(s, v, n, P.frame_max_dt)

\* From the moment it is parsed until it is closed, the filter is in step with the packets.
InStep == Follows(filter, Parsed, seen, verdict) /\ ByNumber(Parsed, seen, verdict) /\ ByTime(Parsed, seen, verdict)
FilterInv ==
    tool # "pcap2cap" =>
    /\ pc \in {"start", "open"} => seen = <<>> /\ verdict = <<>>
    /\ pc \in {"open", "loop", "reading", "close"} => InStep

\* All fields of f but those that filter_match changes.
Same(f, g) ==
    /\ g.index = f.index /\ g.mode = f.mode /\ g.bpf = f.bpf /\ g.frame_max_dt = f.frame_max_dt
    /\ g.caplen = f.caplen

\* The exception for the first packet.
LEMMA FirstSeenFields ==
    ASSUME NEW f \in Filters, NEW p \in Packets
    PROVE  LET g == FirstSeen(f, p)
           IN /\ g \in Filters /\ Same(f, g) /\ g.first = FALSE
              /\ g.frame_num = f.frame_num /\ g.frame_counter = f.frame_counter
              /\ g.frame_last_ts = IF f.first THEN p.ts ELSE f.frame_last_ts
<1>1. p.ts \in Timepico /\ f.first \in BOOLEAN
  BY CaptureAssumption DEF Filters
<1>2. CASE f.first
  <2> DEFINE g == [f EXCEPT !.frame_last_ts = p.ts, !.first = FALSE]
  <2>1. FirstSeen(f, p) = g
    BY <1>2 DEF FirstSeen
  <2>2. g \in Filters /\ Same(f, g) /\ g.first = FALSE /\ g.frame_num = f.frame_num
        /\ g.frame_counter = f.frame_counter /\ g.frame_last_ts = p.ts
    BY <1>1 DEF Filters, Same
  <2> HIDE DEF g
  <2> QED
    BY <1>2, <2>1, <2>2
<1>3. CASE ~f.first
  <2>1. FirstSeen(f, p) = f
    BY <1>3 DEF FirstSeen
  <2>2. f.first = FALSE /\ Same(f, f)
    BY <1>1, <1>3 DEF Same
  <2> QED
    BY <1>3, <2>1, <2>2
<1> QED
  BY <1>2, <1>3

\* filter_match leaves in h what it found in f, but for the counter, the ranges and the time
\* of the last match.
Counted(f, p, h) ==
    /\ h \in Filters /\ Same(f, h) /\ h.first = FALSE
    /\ h.frame_counter = f.frame_counter + 1 /\ h.frame_num = Prune(f)
    /\ h.frame_last_ts = IF Verdict(f, p) \/ f.first THEN p.ts ELSE f.frame_last_ts

LEMMA MatchCounts ==
    ASSUME NEW f \in Filters, NEW p \in Packets
    PROVE  Verdict(f, p) \in BOOLEAN /\ Counted(f, p, FilterMatch(f, p))
<1> DEFINE g == FirstSeen(f, p)
           v == Verdict(f, p)
           n == Prune(f)
           c == g.frame_counter + 1
           t == IF v THEN p.ts ELSE g.frame_last_ts
           h == [g EXCEPT !.frame_num = n, !.frame_counter = c, !.frame_last_ts = t]
<1>1. v \in BOOLEAN
  BY DEF Verdict
<1>2. FilterMatch(f, p) = h
  BY DEF FilterMatch
<1>3. /\ g \in Filters /\ Same(f, g) /\ g.first = FALSE
      /\ g.frame_num = f.frame_num /\ g.frame_counter = f.frame_counter
      /\ g.frame_last_ts = IF f.first THEN p.ts ELSE f.frame_last_ts
  BY FirstSeenFields
<1>4. n \in Seq(FrameNodes)
  <2>1. f.frame_num \in Seq(FrameNodes)
    BY DEF Filters
  <2>2. f.frame_num # <<>> => Tail(f.frame_num) \in Seq(FrameNodes)
    BY <2>1, SMTT(30)
  <2> QED
    BY <2>1, <2>2 DEF Prune
<1>5. c \in Nat /\ c = f.frame_counter + 1
  <2>1. f.frame_counter \in Nat
    BY DEF Filters
  <2>2. c = f.frame_counter + 1
    BY <1>3
  <2> QED
    BY <2>1, <2>2, SMTT(30)
<1>6. t \in Timepico /\ t = IF v \/ f.first THEN p.ts ELSE f.frame_last_ts
  <2>1. p.ts \in Timepico /\ f.frame_last_ts \in Timepico
    BY CaptureAssumption DEF Filters
  <2> HIDE DEF v
  <2> QED
    BY <1>3, <2>1
<1> HIDE DEF g, v, n, c, t
<1>7. h \in Filters /\ Same(g, h) /\ h.first = g.first /\ h.frame_num = n /\ h.frame_counter = c /\ h.frame_last_ts = t
  BY <1>3, <1>4, <1>5, <1>6 DEF Filters, Same
<1> HIDE DEF h
<1>8. Same(f, h)
  BY <1>3, <1>7 DEF Same
<1>9. Counted(f, p, h)
  BY <1>3, <1>5, <1>6, <1>7, <1>8 DEF Counted, n, v
<1> QED
  BY <1>1, <1>2, <1>9 DEF v

\* The bounds of a range are numbers.
LEMMA NodeBounds ==
    ASSUME NEW r \in Seq(FrameNodes)
    PROVE  /\ Len(r) \in Nat /\ DOMAIN r = 1..Len(r)
           /\ \A i \in 1..Len(r) : r[i].lower \in Int /\ r[i].upper \in Int
<1>1. Len(r) \in Nat /\ DOMAIN r = 1..Len(r)
  OBVIOUS
<1>2. ASSUME NEW i \in 1..Len(r) PROVE r[i] \in FrameNodes
  BY SMTT(30)
<1>3. ASSUME NEW x \in FrameNodes PROVE x.lower \in Int /\ x.upper \in Int
  BY DEF FrameNodes
<1> QED
  BY <1>1, <1>2, <1>3

\* Ranges that leave gaps are in order.
LEMMA ApartOrdered ==
    ASSUME NEW r \in Seq(FrameNodes), Apart(r), NEW i \in 1..Len(r), NEW j \in 1..Len(r), i < j
    PROVE  r[i].upper + 1 < r[j].lower
<1> DEFINE Bad == {k \in 1..Len(r) : i < k /\ ~(r[i].upper + 1 < r[k].lower)}
<1>0. \A k \in 1..Len(r) : r[k].lower \in Int /\ r[k].upper \in Int
  BY NodeBounds
<1>1. Len(r) \in Nat /\ \A k \in 1..Len(r) - 1 : r[k].lower <= r[k].upper /\ r[k].upper + 1 < r[k + 1].lower
  BY NodeBounds DEF Apart
<1>2. Bad = {}
  <2> SUFFICES ASSUME Bad # {} PROVE FALSE
    OBVIOUS
  <2>1. Bad \subseteq Nat
    BY <1>1, SMTT(30)
  <2>2. PICK k \in Bad : \A m \in Bad : k <= m
    <3> HIDE DEF Bad
    <3> QED
      BY <2>1, LeastNumber
  <2>3. k \in 1..Len(r) /\ i < k /\ ~(r[i].upper + 1 < r[k].lower)
    OBVIOUS
  <2> HIDE DEF Bad
  <2>4. k - 1 \in 1..Len(r) - 1 /\ k - 1 \in 1..Len(r) /\ (k - 1) + 1 = k /\ ~(k <= k - 1)
    BY <1>1, <2>3, SMTT(30)
  <2>5. CASE k - 1 = i
    BY <1>1, <2>3, <2>4, <2>5, SMTT(30)
  <2>6. CASE k - 1 # i
    <3>1. k - 1 \notin Bad
      BY <2>2, <2>4
    <3>2. r[i].upper + 1 < r[k - 1].lower
      <4>1. i < k - 1
        BY <2>3, <2>4, <2>6, SMTT(30)
      <4> QED
        BY <2>4, <3>1, <4>1 DEF Bad
    <3>3. r[k - 1].lower <= r[k - 1].upper /\ r[k - 1].upper + 1 < r[k].lower
      <4> DEFINE m == k - 1
      <4>1. m \in 1..Len(r) - 1 /\ m + 1 = k
        BY <2>4
      <4> HIDE DEF m
      <4>2. r[m].lower <= r[m].upper /\ r[m].upper + 1 < r[m + 1].lower
        BY <1>1, <4>1
      <4> QED
        BY <4>1, <4>2 DEF m
    <3> QED
      BY <1>0, <2>3, <2>4, <3>2, <3>3, SMTT(30)
  <2> QED
    BY <2>5, <2>6
<1> HIDE DEF Bad
<1> QED
  BY <1>2 DEF Bad

-----------------------------------------------------------------------------
(* --frame-num                                                               *)

\* Tests that decide alone.
LEMMA CoreOne ==
    ASSUME NEW f \in Filters, NEW p
    PROVE  /\ f.index = {"frame_num"} => FilterCore(f, p) = FrameNum(f)
           /\ f.index = {"frame_max_dt"} => FilterCore(f, p) = FrameDt(f, p)
           /\ "frame_max_dt" \in f.index /\ f.mode = "AND" /\ FilterCore(f, p) => FrameDt(f, p)
<1> DEFINE M == Matches(f, p)
<1>1. M["frame_num"] = FrameNum(f) /\ M["frame_max_dt"] = FrameDt(f, p)
  BY SMTT(30) DEF Matches, Criteria, Masked
<1>2. FrameNum(f) \in BOOLEAN /\ FrameDt(f, p) \in BOOLEAN
  BY DEF FrameNum, FrameDt
<1>3. FilterCore(f, p) = LET match == {c \in f.index : M[c]} IN IF f.mode = "AND" THEN match = f.index ELSE match # {}
  BY DEF FilterCore
<1> HIDE DEF M
<1>4. ASSUME NEW c, f.index = {c}, M[c] \in BOOLEAN PROVE FilterCore(f, p) = M[c]
  BY <1>3, <1>4
<1>5. ASSUME NEW c \in f.index, f.mode = "AND", FilterCore(f, p) PROVE M[c]
  <2>1. c \in {x \in f.index : M[x]}
    BY <1>3, <1>5
  <2> QED
    BY <2>1
<1> QED
  BY <1>1, <1>2, <1>4, <1>5

\* The ranges in front of the first one left have passed, and the packet is before those
\* behind it: the first one decides.
LEMMA HeadDecides ==
    ASSUME NEW l \in Seq(FrameNodes), NEW r \in Seq(FrameNodes), Apart(r), NEW c \in Nat, RangesLeft(l, r, c)
    PROVE  (l # <<>> /\ InRange(c, l[1])) <=> \E i \in DOMAIN r : InRange(c, r[i])
<1> DEFINE d == Len(r) - Len(l)
<1>1. /\ d \in Nat /\ Len(l) \in Nat /\ Len(r) \in Nat /\ Len(r) = d + Len(l) /\ DOMAIN r = 1..Len(r)
      /\ \A i \in 1..Len(l) : l[i] = r[d + i]
      /\ \A i \in 1..d : 0 < r[i].upper /\ r[i].upper < c
      /\ Len(l) > 1 => c <= l[1].upper + 1
  <2>1. Len(l) \in Nat /\ Len(r) \in Nat /\ DOMAIN r = 1..Len(r)
    BY NodeBounds
  <2>2. d \in Nat /\ Len(r) = d + Len(l)
    BY <2>1, SMTT(30) DEF RangesLeft
  <2> QED
    BY <2>1, <2>2 DEF RangesLeft
<1> HIDE DEF d
<1>2. \A i \in 1..Len(r) : r[i].lower \in Int /\ r[i].upper \in Int
  BY NodeBounds
<1>3. ASSUME NEW i \in 1..Len(r), i > d + 1 PROVE c < r[i].lower
  <2>1. l[1] = r[d + 1] /\ Len(l) > 1 /\ d + 1 \in 1..Len(r)
    <3>1. Len(l) > 1 /\ d + 1 \in 1..Len(r) /\ 1 \in 1..Len(l)
      BY <1>1, <1>3, SMTT(30)
    <3> QED
      BY <1>1, <3>1
  <2>2. r[d + 1].upper + 1 < r[i].lower
    <3>1. d + 1 < i
      BY <1>1, <1>3, SMTT(30)
    <3> QED
      BY <2>1, <3>1, ApartOrdered
  <2>3. c <= r[d + 1].upper + 1 /\ r[d + 1].upper \in Int /\ r[i].lower \in Int
    BY <1>1, <1>2, <2>1
  <2> QED
    BY <2>2, <2>3, SMTT(30)
<1>4. ASSUME NEW i \in 1..Len(r), InRange(c, r[i]) PROVE i = d + 1
  <2>1. ~(i <= d)
    BY <1>1, <1>2, <1>4, SMTT(30) DEF InRange
  <2>2. ~(i > d + 1)
    BY <1>2, <1>3, <1>4, SMTT(30) DEF InRange
  <2> QED
    BY <1>1, <2>1, <2>2, SMTT(30)
<1>5. l # <<>> => Len(l) >= 1 /\ l[1] = r[d + 1] /\ d + 1 \in 1..Len(r)
  BY <1>1, SMTT(30)
<1>6. d + 1 \in 1..Len(r) => l # <<>>
  BY <1>1, SMTT(30)
<1> QED
  BY <1>1, <1>4, <1>5, <1>6

\* It ends at a packet or has no end.
LEMMA HeadEnds ==
    ASSUME NEW l \in Seq(FrameNodes), NEW r \in Seq(FrameNodes), Apart(r), NEW c, RangesLeft(l, r, c), l # <<>>
    PROVE  l[1].upper > 0 \/ l[1].upper = -1
<1>1. Len(l) \in Nat /\ Len(l) >= 1 /\ Len(r) \in Nat /\ Len(l) <= Len(r) /\ DOMAIN r = 1..Len(r)
  BY SMTT(30) DEF RangesLeft
<1>2. 1 \in 1..Len(l) /\ Len(r) - Len(l) + 1 \in DOMAIN r
  BY <1>1, SMTT(30)
<1>3. l[1] = r[Len(r) - Len(l) + 1]
  BY <1>2 DEF RangesLeft
<1> QED
  BY <1>2, <1>3 DEF Apart

\* The ranges left for the next packet.
LEMMA PruneLeaves ==
    ASSUME NEW f \in Filters, NEW r \in Seq(FrameNodes), Apart(r), RangesLeft(f.frame_num, r, f.frame_counter)
    PROVE  RangesLeft(Prune(f), r, f.frame_counter + 1)
<1> DEFINE l == f.frame_num
           c == f.frame_counter
           d == Len(r) - Len(l)
<1>0. l \in Seq(FrameNodes) /\ c \in Nat
  BY DEF Filters
<1>1. /\ d \in Nat /\ Len(l) \in Nat /\ Len(r) \in Nat /\ Len(r) = d + Len(l)
      /\ \A i \in 1..Len(l) : l[i] = r[d + i]
      /\ \A i \in 1..d : 0 < r[i].upper /\ r[i].upper < c
      /\ Len(l) > 1 => c <= l[1].upper + 1
  <2>1. Len(l) \in Nat /\ Len(r) \in Nat
    BY <1>0, NodeBounds
  <2>2. d \in Nat /\ Len(r) = d + Len(l)
    BY <2>1, SMTT(30) DEF RangesLeft
  <2> QED
    BY <2>1, <2>2 DEF RangesLeft
<1>2. Prune(f) = IF l # <<>> /\ Head(l).upper > 0 /\ c > Head(l).upper THEN Tail(l) ELSE l
  BY DEF Prune
<1>3. \A i \in 1..Len(r) : r[i].lower \in Int /\ r[i].upper \in Int
  BY NodeBounds
<1>4. \A i \in 1..Len(r) - 1 : 0 < r[i].upper /\ r[i].lower <= r[i].upper /\ r[i].upper + 1 < r[i + 1].lower
  BY DEF Apart
<1> HIDE DEF l, c, d
<1>5. CASE l # <<>> /\ Head(l).upper > 0 /\ c > Head(l).upper
  <2> DEFINE t == Tail(l)
  <2>1. Len(t) = Len(l) - 1 /\ Len(l) >= 1 /\ Head(l) = r[d + 1] /\ l[1] = r[d + 1] /\ \A i \in 1..Len(t) : t[i] = l[i + 1]
    BY <1>0, <1>1, <1>5, SMTT(30)
  <2> HIDE DEF t
  <2>2. Len(t) \in Nat /\ Len(t) <= Len(r) /\ Len(r) - Len(t) = d + 1 /\ \A i \in 1..Len(t) : t[i] = r[d + 1 + i]
    <3>1. Len(t) \in Nat /\ Len(t) <= Len(r) /\ Len(r) - Len(t) = d + 1
      BY <1>1, <2>1, SMTT(30)
    <3>2. ASSUME NEW i \in 1..Len(t) PROVE t[i] = r[d + 1 + i]
      <4>1. i + 1 \in 1..Len(l) /\ d + (i + 1) = d + 1 + i
        BY <1>1, <2>1, SMTT(30)
      <4>2. t[i] = l[i + 1] /\ l[i + 1] = r[d + (i + 1)]
        BY <1>1, <2>1, <4>1
      <4> QED
        BY <4>1, <4>2
    <3> QED
      BY <3>1, <3>2
  <2>3. ASSUME NEW i \in 1..(d + 1) PROVE 0 < r[i].upper /\ r[i].upper < c + 1
    <3>1. CASE i = d + 1
      <4>1. r[i].upper > 0 /\ c > r[i].upper /\ r[i].upper \in Int
        <5>1. i \in 1..Len(r)
          BY <1>1, <2>1, <3>1, SMTT(30)
        <5> QED
          BY <1>3, <1>5, <2>1, <3>1, <5>1
      <4> QED
        BY <1>0, <4>1, SMTT(30)
    <3>2. CASE i # d + 1
      <4>1. i \in 1..d /\ i \in 1..Len(r)
        BY <1>1, <2>1, <3>2, SMTT(30)
      <4>2. 0 < r[i].upper /\ r[i].upper < c /\ r[i].upper \in Int
        BY <1>1, <1>3, <4>1
      <4> QED
        BY <1>0, <4>2, SMTT(30)
    <3> QED
      BY <3>1, <3>2
  <2>4. ASSUME Len(t) > 1 PROVE c + 1 <= t[1].upper + 1
    <3>1. t[1] = r[d + 2] /\ d + 1 \in 1..Len(r) - 1 /\ d + 2 \in 1..Len(r) - 1 /\ d + 2 = (d + 1) + 1
      BY <1>1, <2>1, <2>2, <2>4, SMTT(30)
    <3>2. r[d + 1].upper + 1 < r[d + 2].lower /\ r[d + 2].lower <= r[d + 2].upper
      BY <1>4, <3>1
    <3>3. c <= r[d + 1].upper + 1
      BY <1>1, <2>1, <2>4, SMTT(30)
    <3>4. d + 1 \in 1..Len(r) /\ d + 2 \in 1..Len(r)
      BY <1>1, <3>1, SMTT(30)
    <3>5. r[d + 1].upper \in Int /\ r[d + 2].lower \in Int /\ r[d + 2].upper \in Int
      BY <1>3, <3>4
    <3>6. c + 1 <= r[d + 2].upper + 1
      BY <1>0, <3>2, <3>3, <3>5, SMTT(30)
    <3> QED
      BY <3>1, <3>6
  <2>5. RangesLeft(t, r, c + 1)
    BY <2>2, <2>3, <2>4, SMTT(30) DEF RangesLeft
  <2> QED
    BY <1>2, <1>5, <2>5 DEF t, c
<1>6. CASE ~(l # <<>> /\ Head(l).upper > 0 /\ c > Head(l).upper)
  <2>1. ASSUME Len(l) > 1 PROVE c + 1 <= l[1].upper + 1
    <3>1. l # <<>> /\ Head(l) = l[1] /\ l[1] = r[d + 1] /\ d + 1 \in 1..Len(r) - 1
      BY <1>0, <1>1, <2>1, SMTT(30)
    <3>2. 0 < r[d + 1].upper /\ r[d + 1].upper \in Int
      BY <1>1, <1>3, <1>4, <3>1, SMTT(30)
    <3> QED
      BY <1>0, <1>6, <3>1, <3>2, SMTT(30)
  <2>2. ASSUME NEW i \in 1..d PROVE 0 < r[i].upper /\ r[i].upper < c + 1
    BY <1>0, <1>1, <1>3, SMTT(30)
  <2>3. RangesLeft(l, r, c + 1)
    BY <1>1, <2>1, <2>2, SMTT(30) DEF RangesLeft, d
  <2> QED
    BY <1>2, <1>6, <2>3 DEF c
<1> QED
  BY <1>5, <1>6

-----------------------------------------------------------------------------
(* --frame-max-dt                                                            *)

\* A time whose fraction is less than a second.
Timed(t) == t.sec \in Int /\ t.psec \in Int /\ 0 <= t.psec /\ t.psec < PICODIVIDER

\* A second more is more than any fraction.
LEMMA SecondsCount ==
    ASSUME NEW a \in Int, NEW b \in Int, a < b
    PROVE  a * PICODIVIDER + PICODIVIDER <= b * PICODIVIDER /\ a * PICODIVIDER \in Int /\ b * PICODIVIDER \in Int
<1> DEFINE e == b - a - 1
<1>1. e \in Nat /\ b = a + 1 + e /\ PICODIVIDER \in Nat
  BY PicoAssumption, SMTT(30)
<1> HIDE DEF e
<1>2. e * PICODIVIDER >= 0 /\ e * PICODIVIDER \in Int /\ a * PICODIVIDER \in Int /\ b * PICODIVIDER \in Int
  BY <1>1, SMTT(30)
<1>3. (a + 1 + e) * PICODIVIDER = a * PICODIVIDER + PICODIVIDER + e * PICODIVIDER
  BY <1>1, SMTT(30)
<1> QED
  BY <1>1, <1>2, <1>3, SMTT(30)

\* timecmp compares what the two times are worth.
LEMMA CompareTimes ==
    ASSUME NEW a, NEW b, Timed(a), Timed(b)
    PROVE  /\ Value(a) \in Int /\ Value(b) \in Int
           /\ timecmp(a, b) < 0 <=> Value(a) < Value(b)
           /\ timecmp(a, b) <= 0 <=> Value(a) <= Value(b)
<1> DEFINE x == a.sec * PICODIVIDER
           y == b.sec * PICODIVIDER
<1>1. /\ a.sec \in Int /\ a.psec \in Int /\ 0 <= a.psec /\ a.psec < PICODIVIDER
      /\ b.sec \in Int /\ b.psec \in Int /\ 0 <= b.psec /\ b.psec < PICODIVIDER
      /\ PICODIVIDER \in Int
  BY PicoAssumption DEF Timed
<1>2. x \in Int /\ y \in Int
  BY <1>1, SMTT(30)
<1>3. /\ a.sec < b.sec => x + PICODIVIDER <= y
      /\ b.sec < a.sec => y + PICODIVIDER <= x
      /\ a.sec = b.sec => x = y
  BY <1>1, SecondsCount
<1>4. Value(a) = x + a.psec /\ Value(b) = y + b.psec
  BY DEF Value
<1> HIDE DEF x, y
<1> QED
  BY <1>1, <1>2, <1>3, <1>4, SMTT(30) DEF timecmp

\* timepico_sub is exact.
LEMMA SubtractTimes ==
    ASSUME NEW a, NEW b, Timed(a), Timed(b)
    PROVE  LET d == timepico_sub(a, b) IN Timed(d) /\ Value(d) = Value(a) - Value(b)
<1> DEFINE borrow == IF a.psec < b.psec THEN (b.psec - a.psec) \div PICODIVIDER + 1 ELSE 0
           frac == a.psec - b.psec + PICODIVIDER * borrow
           back == IF frac > PICODIVIDER THEN frac \div PICODIVIDER ELSE 0
           d == timepico_sub(a, b)
<1>1. /\ a.sec \in Int /\ a.psec \in Int /\ 0 <= a.psec /\ a.psec < PICODIVIDER
      /\ b.sec \in Int /\ b.psec \in Int /\ 0 <= b.psec /\ b.psec < PICODIVIDER
      /\ PICODIVIDER \in Int /\ PICODIVIDER > 0
  BY PicoAssumption, SMTT(30) DEF Timed
<1>2. borrow = IF a.psec < b.psec THEN 1 ELSE 0
  BY <1>1, SMTT(30)
<1>3. d.sec = a.sec - b.sec - borrow + back /\ d.psec = frac - PICODIVIDER * back
  BY DEF timepico_sub
<1> HIDE DEF d, borrow
<1>4. frac = a.psec - b.psec + (IF a.psec < b.psec THEN PICODIVIDER ELSE 0)
  BY <1>1, <1>2, SMTT(30)
<1> HIDE DEF frac
<1>5. frac \in Int /\ 0 <= frac /\ frac < PICODIVIDER
  BY <1>1, <1>4, SMTT(30)
<1>6. back = 0
  BY <1>1, <1>5, SMTT(30)
<1> HIDE DEF back
<1>7. d.sec = a.sec - b.sec - borrow /\ d.psec = frac
  BY <1>1, <1>2, <1>3, <1>5, <1>6, SMTT(30)
<1>8. Timed(d)
  BY <1>1, <1>2, <1>5, <1>7, SMTT(30) DEF Timed
<1>9. (a.sec - b.sec - borrow) * PICODIVIDER = a.sec * PICODIVIDER - b.sec * PICODIVIDER - borrow * PICODIVIDER
  BY <1>1, <1>2, SMTT(30)
<1>10. borrow * PICODIVIDER = IF a.psec < b.psec THEN PICODIVIDER ELSE 0
  BY <1>1, <1>2, SMTT(30)
<1>11. Value(d) = Value(a) - Value(b)
  BY <1>1, <1>4, <1>7, <1>9, <1>10, SMTT(30) DEF Value
<1> QED
  BY <1>8, <1>11 DEF d

\* filter_frame_dt, for a packet that is not before the last match.
LEMMA DtDecides ==
    ASSUME NEW f, NEW p, Timed(p.ts), Timed(f.frame_last_ts), Timed(f.frame_max_dt),
           Value(f.frame_last_ts) <= Value(p.ts)
    PROVE  FrameDt(f, p) <=> ~(Value(p.ts) - Value(f.frame_last_ts) > Value(f.frame_max_dt))
<1> DEFINE d == timepico_sub(p.ts, f.frame_last_ts)
<1>1. Timed(d) /\ Value(d) = Value(p.ts) - Value(f.frame_last_ts)
  BY SubtractTimes
<1>2. FrameDt(f, p) <=> timecmp(p.ts, f.frame_last_ts) < 0 \/ timecmp(d, f.frame_max_dt) <= 0
  BY DEF FrameDt
<1> HIDE DEF d
<1>3. timecmp(p.ts, f.frame_last_ts) < 0 <=> Value(p.ts) < Value(f.frame_last_ts)
  BY CompareTimes
<1>4. timecmp(d, f.frame_max_dt) <= 0 <=> Value(d) <= Value(f.frame_max_dt)
  BY <1>1, CompareTimes
<1>5. Value(p.ts) \in Int /\ Value(f.frame_last_ts) \in Int /\ Value(f.frame_max_dt) \in Int
  BY CompareTimes
<1> QED
  BY <1>1, <1>2, <1>3, <1>4, <1>5, SMTT(30)

\* The matches before packet n, and the last of some.
Hits(v, n) == {k \in 1..n - 1 : v[k]}
Last(m) == CHOOSE k \in m : \A j \in m : j <= k

\* A set of numbers with a bound has a greatest.
LEMMA GreatestNumber ==
    ASSUME NEW n \in Nat, NEW m, m \subseteq 1..n, m # {}
    PROVE  Last(m) \in m /\ \A j \in m : j <= Last(m)
<1> DEFINE S == {n - x : x \in m}
<1>1. \A x \in m : x \in Nat /\ x <= n /\ n - x \in Nat
  BY SMTT(30)
<1>2. S \subseteq Nat /\ S # {}
  BY <1>1
<1> HIDE DEF S
<1>3. PICK y \in S : \A z \in S : y <= z
  BY <1>2, LeastNumber
<1>4. PICK k \in m : y = n - k
  BY <1>3 DEF S
<1>5. ASSUME NEW j \in m PROVE j <= k
  <2>1. y <= n - j
    BY <1>3 DEF S
  <2> QED
    BY <1>1, <1>4, <2>1, SMTT(30)
<1> QED
  BY <1>5 DEF Last

\* The matches and the packets in front of n do not change when one more is read.
LEMMA SincePrefix ==
    ASSUME NEW s \in Seq(Packets), NEW v \in Seq(BOOLEAN), Len(v) = Len(s), NEW p, NEW b,
           s # <<>>, NEW n \in 1..Len(s) + 1
    PROVE  Since(Append(s, p), Append(v, b), n) = Since(s, v, n)
<1> DEFINE t == Append(s, p)
           w == Append(v, b)
<1>1. /\ Len(s) \in Nat /\ 1 \in 1..Len(s) /\ \A k \in 1..n - 1 : k \in 1..Len(s)
      /\ \A k \in 1..Len(s) : t[k] = s[k] /\ w[k] = v[k]
  BY SMTT(30)
<1> HIDE DEF t, w
<1>2. Hits(w, n) = Hits(v, n)
  BY <1>1 DEF Hits
<1>3. Hits(v, n) # {} => Last(Hits(v, n)) \in 1..Len(s)
  <2>1. n - 1 \in Nat
    BY <1>1, SMTT(30)
  <2>2. Hits(v, n) \subseteq 1..n - 1
    BY DEF Hits
  <2>3. Hits(v, n) # {} => Last(Hits(v, n)) \in Hits(v, n)
    BY <2>1, <2>2, GreatestNumber
  <2> QED
    BY <1>1, <2>2, <2>3
<1>4. Since(s, v, n) = IF Hits(v, n) = {} THEN s[1].ts ELSE s[Last(Hits(v, n))].ts
  BY DEF Since, Hits, Last
<1>5. Since(t, w, n) = IF Hits(w, n) = {} THEN t[1].ts ELSE t[Last(Hits(w, n))].ts
  BY DEF Since, Hits, Last
<1> QED
  BY <1>1, <1>2, <1>3, <1>4, <1>5 DEF t, w

\* The time of a packet that was seen, not after packet n.
LEMMA SinceSeen ==
    ASSUME NEW s \in Seq(Packets), NEW v, NEW n \in 1..Len(s)
    PROVE  \E k \in 1..n : Since(s, v, n) = s[k].ts
<1>1. Len(s) \in Nat /\ n \in Nat /\ n - 1 \in Nat /\ 1 \in 1..n /\ \A k \in 1..n - 1 : k \in 1..n
  BY SMTT(30)
<1>2. Hits(v, n) \subseteq 1..n - 1
  BY DEF Hits
<1>3. Hits(v, n) # {} => Last(Hits(v, n)) \in 1..n
  <2>1. Hits(v, n) # {} => Last(Hits(v, n)) \in Hits(v, n)
    BY <1>1, <1>2, GreatestNumber
  <2> QED
    BY <1>1, <1>2, <2>1
<1>4. Since(s, v, n) = IF Hits(v, n) = {} THEN s[1].ts ELSE s[Last(Hits(v, n))].ts
  BY DEF Since, Hits, Last
<1> QED
  BY <1>1, <1>3, <1>4

\* The time is that of packet n if it matches, else it stays.
LEMMA SinceNext ==
    ASSUME NEW s \in Seq(Packets), NEW v \in Seq(BOOLEAN), Len(v) = Len(s), NEW n \in 1..Len(s)
    PROVE  Since(s, v, n + 1) = IF v[n] THEN s[n].ts ELSE Since(s, v, n)
<1>1. n \in Nat /\ n - 1 \in Nat /\ (n + 1) - 1 = n /\ n \in 1..n /\ \A k : k \in 1..n <=> k = n \/ k \in 1..n - 1
  BY SMTT(30)
<1>2. ASSUME NEW x \in Nat PROVE Since(s, v, x) = IF Hits(v, x) = {} THEN s[1].ts ELSE s[Last(Hits(v, x))].ts
  BY DEF Since, Hits, Last
<1>3. CASE v[n]
  <2>1. n \in Hits(v, n + 1) /\ Hits(v, n + 1) \subseteq 1..n
    BY <1>1, <1>3 DEF Hits
  <2>2. Last(Hits(v, n + 1)) \in 1..n /\ n <= Last(Hits(v, n + 1))
    BY <1>1, <2>1, GreatestNumber
  <2>3. Last(Hits(v, n + 1)) = n /\ n + 1 \in Nat
    BY <1>1, <2>2, SMTT(30)
  <2> QED
    BY <1>2, <1>3, <2>1, <2>3
<1>4. CASE ~v[n]
  <2>1. Hits(v, n + 1) = Hits(v, n)
    BY <1>1, <1>4 DEF Hits
  <2>2. n + 1 \in Nat
    BY <1>1, SMTT(30)
  <2> QED
    BY <1>1, <1>2, <1>4, <2>1, <2>2
<1> QED
  BY <1>3, <1>4

\* It stays as long as nothing matches.
LEMMA SinceKept ==
    ASSUME NEW s \in Seq(Packets), NEW v, NEW i \in 1..Len(s), NEW j \in 1..Len(s), i <= j,
           \A k \in 1..Len(s) : i <= k /\ k < j => ~v[k]
    PROVE  Since(s, v, j) = Since(s, v, i)
<1>1. ASSUME NEW x \in 1..Len(s) PROVE Since(s, v, x) = IF Hits(v, x) = {} THEN s[1].ts ELSE s[Last(Hits(v, x))].ts
  BY DEF Since, Hits, Last
<1>2. ASSUME NEW k PROVE k \in 1..i - 1 => k \in 1..j - 1
  BY SMTT(30)
<1>3. ASSUME NEW k \in 1..j - 1, v[k] PROVE k \in 1..i - 1
  <2>1. k \in 1..Len(s) /\ k < j
    BY SMTT(30)
  <2>2. ~(i <= k)
    BY <1>3, <2>1
  <2> QED
    BY <2>1, <2>2, SMTT(30)
<1>4. Hits(v, i) = Hits(v, j)
  BY <1>2, <1>3 DEF Hits
<1> QED
  BY <1>1, <1>4

\* Times of packets in order.
LEMMA TimedPacket ==
    ASSUME NEW s \in Seq(Packets), InOrder(s), NEW k \in 1..Len(s)
    PROVE  Timed(s[k].ts) /\ Value(s[k].ts) \in Int
<1>1. s[k] \in Packets /\ k \in DOMAIN s
  BY SMTT(30)
<1>2. s[k].ts \in Timepico /\ Normal(s[k].ts)
  BY <1>1, CaptureAssumption DEF InOrder
<1>3. Timed(s[k].ts)
  BY <1>2, PicoAssumption, SMTT(30) DEF Timed, Normal, Timepico
<1> QED
  BY <1>3, CompareTimes

\* Packets that are in order, each to the next, are in order.
LEMMA OrderedPairs ==
    ASSUME NEW s \in Seq(Packets), InOrder(s), NEW i \in 1..Len(s), NEW j \in 1..Len(s), i <= j
    PROVE  Value(s[i].ts) <= Value(s[j].ts)
<1>0. \A k \in 1..Len(s) : Timed(s[k].ts) /\ Value(s[k].ts) \in Int
  BY TimedPacket
<1> DEFINE Bad == {k \in 1..Len(s) : i <= k /\ ~(Value(s[i].ts) <= Value(s[k].ts))}
<1>1. Len(s) \in Nat /\ \A k \in 1..Len(s) - 1 : Value(s[k].ts) <= Value(s[k + 1].ts)
  BY DEF InOrder
<1>2. Bad = {}
  <2> SUFFICES ASSUME Bad # {} PROVE FALSE
    OBVIOUS
  <2>1. Bad \subseteq Nat
    BY <1>1, SMTT(30)
  <2>2. PICK k \in Bad : \A m \in Bad : k <= m
    <3> HIDE DEF Bad
    <3> QED
      BY <2>1, LeastNumber
  <2>3. k \in 1..Len(s) /\ i <= k /\ ~(Value(s[i].ts) <= Value(s[k].ts))
    OBVIOUS
  <2> HIDE DEF Bad
  <2>4. k # i
    BY <1>0, <2>3, SMTT(30)
  <2> DEFINE m == k - 1
  <2>5. m \in 1..Len(s) - 1 /\ m \in 1..Len(s) /\ m + 1 = k /\ ~(k <= m) /\ i <= m
    BY <1>1, <2>3, <2>4, SMTT(30)
  <2> HIDE DEF m
  <2>6. m \notin Bad
    BY <2>2, <2>5
  <2>7. Value(s[i].ts) <= Value(s[m].ts)
    BY <2>5, <2>6 DEF Bad
  <2>8. Value(s[m].ts) <= Value(s[k].ts)
    BY <1>1, <2>5
  <2>9. Value(s[i].ts) \in Int /\ Value(s[m].ts) \in Int /\ Value(s[k].ts) \in Int
    BY <1>0, <2>3, <2>5
  <2> QED
    BY <2>3, <2>7, <2>8, <2>9, SMTT(30)
<1> HIDE DEF Bad
<1> QED
  BY <1>2 DEF Bad

-----------------------------------------------------------------------------
(* One packet more.                                                          *)

\* A sequence with one element more.
LEMMA OneMore ==
    ASSUME NEW S, NEW s \in Seq(S), NEW x \in S
    PROVE  LET t == Append(s, x)
           IN /\ t \in Seq(S) /\ Len(t) = Len(s) + 1 /\ Len(s) \in Nat /\ t # <<>> /\ DOMAIN t = 1..Len(s) + 1
              /\ DOMAIN s = 1..Len(s) /\ t[Len(s) + 1] = x /\ \A k \in 1..Len(s) : t[k] = s[k]
BY SMTT(30)

\* The time packet p is measured from.
LEMMA MeasuredFrom ==
    ASSUME NEW f \in Filters, NEW P, NEW s \in Seq(Packets), NEW v \in Seq(BOOLEAN), Len(v) = Len(s),
           Follows(f, P, s, v), NEW p \in Packets, NEW b \in BOOLEAN
    PROVE  Since(Append(s, p), Append(v, b), Len(s) + 1) = IF f.first THEN p.ts ELSE f.frame_last_ts
<1> DEFINE t == Append(s, p)
           w == Append(v, b)
           n == Len(s) + 1
<1>1. f.first = (s = <<>>) /\ (s # <<>> => f.frame_last_ts = Since(s, v, n))
  BY DEF Follows
<1>2. CASE s = <<>>
  <2>1. n = 1 /\ t[1] = p /\ 1..n - 1 = {}
    BY <1>2, SMTT(30)
  <2> HIDE DEF n, t, w
  <2>2. Since(t, w, n) = t[1].ts
    BY <2>1 DEF Since
  <2> QED
    BY <1>1, <1>2, <2>1, <2>2 DEF n, t, w
<1>3. CASE s # <<>>
  <2>1. n \in 1..Len(s) + 1
    BY SMTT(30)
  <2>2. Since(t, w, n) = Since(s, v, n)
    BY <1>3, <2>1, SincePrefix
  <2> QED
    BY <1>1, <1>3, <2>2
<1> QED
  BY <1>2, <1>3

\* filter_match keeps the filter in step with the packets.
LEMMA StepFollows ==
    ASSUME NEW f \in Filters, NEW P \in Filters, NEW s \in Seq(Packets), NEW v \in Seq(BOOLEAN), Len(v) = Len(s),
           Follows(f, P, s, v), NEW p \in Packets
    PROVE  Follows(FilterMatch(f, p), P, Append(s, p), Append(v, Verdict(f, p)))
<1> DEFINE b == Verdict(f, p)
           h == FilterMatch(f, p)
           t == Append(s, p)
           w == Append(v, b)
           n == Len(s) + 1
<1>1. b \in BOOLEAN /\ Counted(f, p, h)
  BY MatchCounts
<1> HIDE DEF b, h
<1>2. Len(t) = n /\ t # <<>> /\ t \in Seq(Packets) /\ t[n] = p /\ Len(s) \in Nat
  BY OneMore, SMTT(30)
<1>3. Len(w) = n /\ w \in Seq(BOOLEAN) /\ w[n] = b
  BY <1>1, OneMore, SMTT(30)
<1>4. Since(t, w, n) = IF f.first THEN p.ts ELSE f.frame_last_ts
  BY <1>1, MeasuredFrom
<1> HIDE DEF t, w
<1>5. n \in 1..Len(t) /\ n \in Nat
  BY <1>2, SMTT(30)
<1>6. h.frame_last_ts = Since(t, w, n + 1)
  <2>1. Since(t, w, n + 1) = IF w[n] THEN t[n].ts ELSE Since(t, w, n)
    BY <1>2, <1>3, <1>5, SinceNext
  <2>2. h.frame_last_ts = IF b \/ f.first THEN p.ts ELSE f.frame_last_ts
    BY <1>1 DEF Counted, b
  <2> HIDE DEF n
  <2> QED
    BY <1>1, <1>2, <1>3, <1>4, <2>1, <2>2
<1>7. Apart(P.frame_num) => RangesLeft(h.frame_num, P.frame_num, n + 1)
  <2>1. f.frame_counter = n /\ P.frame_num \in Seq(FrameNodes) /\ h.frame_num = Prune(f)
    BY <1>1 DEF Follows, Filters, Counted
  <2>2. Apart(P.frame_num) => RangesLeft(f.frame_num, P.frame_num, f.frame_counter)
    BY DEF Follows
  <2> HIDE DEF n
  <2> QED
    BY <2>1, <2>2, PruneLeaves
<1>8. h.frame_counter = n + 1 /\ h.first = FALSE
  BY <1>1 DEF Counted, Follows
<1>9. h.index = P.index /\ h.mode = P.mode /\ h.bpf = P.bpf /\ h.frame_max_dt = P.frame_max_dt
  BY <1>1 DEF Counted, Same, Follows
<1> HIDE DEF n
<1>10. Follows(h, P, t, w)
  BY <1>2, <1>6, <1>7, <1>8, <1>9 DEF Follows
<1> QED
  BY <1>10 DEF h, t, w, b

\* filter_match decides by what FirstSeen leaves.
LEMMA VerdictCore ==
    ASSUME NEW f \in Filters, NEW p \in Packets, f.index # {}
    PROVE  LET g == FirstSeen(f, p)
           IN (Verdict(f, p) => FilterCore(g, p)) /\ (~f.bpf => Verdict(f, p) = FilterCore(g, p))
<1> DEFINE g == FirstSeen(f, p)
<1>1. g.index = f.index /\ g.bpf = f.bpf
  BY FirstSeenFields DEF Same
<1>2. Verdict(f, p) = ((g.index = {} \/ FilterCore(g, p)) /\ (g.bpf => p.bpf))
  BY DEF Verdict
<1>3. FilterCore(g, p) \in BOOLEAN
  BY DEF FilterCore
<1> HIDE DEF g
<1>4. (Verdict(f, p) => FilterCore(g, p)) /\ (~f.bpf => Verdict(f, p) = FilterCore(g, p))
  BY <1>1, <1>2, <1>3
<1> QED
  BY <1>4 DEF g

\* The verdict on the next packet is right by its number.
LEMMA StepByNumber ==
    ASSUME NEW f \in Filters, NEW P \in Filters, NEW s \in Seq(Packets), NEW v \in Seq(BOOLEAN), Len(v) = Len(s),
           Follows(f, P, s, v), ByNumber(P, s, v), NEW p \in Packets
    PROVE  ByNumber(P, Append(s, p), Append(v, Verdict(f, p)))
<1> DEFINE b == Verdict(f, p)
           t == Append(s, p)
           w == Append(v, b)
           n == Len(s) + 1
           g == FirstSeen(f, p)
           r == P.frame_num
           l == f.frame_num
           In(k) == \E i \in DOMAIN r : InRange(k, r[i])
<1> HIDE DEF In
<1> SUFFICES ASSUME P.index = {"frame_num"}, ~P.bpf, Apart(r), NEW k \in DOMAIN t PROVE w[k] <=> In(k)
  BY DEF ByNumber, In
<1>1. b \in BOOLEAN
  BY MatchCounts
<1>2. Len(s) \in Nat /\ DOMAIN t = 1..n /\ DOMAIN s = 1..Len(s)
  BY OneMore, SMTT(30)
<1>3. w[n] = b /\ \A i \in 1..Len(s) : w[i] = v[i]
  BY <1>1, OneMore, SMTT(30)
<1>4. CASE k \in 1..Len(s)
  BY <1>2, <1>3, <1>4 DEF ByNumber, In
<1>5. CASE k = n
  <2>1. f.index = P.index /\ f.bpf = P.bpf /\ f.frame_counter = n /\ RangesLeft(l, r, n)
    BY DEF Follows
  <2>2. g \in Filters /\ g.index = f.index /\ g.frame_num = l /\ g.frame_counter = n
    BY <2>1, FirstSeenFields DEF Same
  <2>3. b = FilterCore(g, p)
    BY <2>1, VerdictCore
  <2> HIDE DEF g, b
  <2>4. b = FrameNum(g)
    BY <2>1, <2>2, <2>3, CoreOne
  <2>5. r \in Seq(FrameNodes) /\ l \in Seq(FrameNodes) /\ n \in Nat
    BY <1>2, SMTT(30) DEF Filters
  <2>6. (l # <<>> /\ InRange(n, l[1])) <=> In(n)
    <3> HIDE DEF l, r, n
    <3> QED
      BY <2>1, <2>5, HeadDecides DEF In
  <2>7. FrameNum(g) <=> (l # <<>> /\ InRange(n, l[1]))
    <3>1. Head(l) = l[1]
      OBVIOUS
    <3> HIDE DEF n, l, r
    <3>2. l # <<>> => l[1].upper > 0 \/ l[1].upper = -1
      BY <2>1, <2>5, HeadEnds
    <3>3. l # <<>> /\ l[1].upper > 0 => l[1].upper # -1
      BY SMTT(30)
    <3>4. l # <<>> /\ l[1].upper = -1 => ~(l[1].upper > 0)
      BY SMTT(30)
    <3> QED
      BY <2>2, <3>1, <3>2, <3>3, <3>4 DEF FrameNum, InRange
  <2> QED
    BY <1>3, <1>5, <2>4, <2>6, <2>7
<1> QED
  BY <1>2, <1>4, <1>5, SMTT(30)

\* The packets before the last are in order too.
LEMMA OrderedPrefix ==
    ASSUME NEW s \in Seq(Packets), NEW p \in Packets, InOrder(Append(s, p))
    PROVE  InOrder(s)
<1> DEFINE t == Append(s, p)
<1>1. /\ Len(t) = Len(s) + 1 /\ Len(s) \in Nat /\ DOMAIN t = 1..Len(s) + 1 /\ DOMAIN s = 1..Len(s)
      /\ \A k \in 1..Len(s) : t[k] = s[k]
  BY OneMore, SMTT(30)
<1> HIDE DEF t
<1>2. /\ \A n \in DOMAIN t : Normal(t[n].ts)
      /\ \A n \in 1..Len(t) - 1 : Value(t[n].ts) <= Value(t[n + 1].ts)
  BY DEF InOrder, t
<1>3. ASSUME NEW n \in DOMAIN s PROVE Normal(s[n].ts)
  <2>1. n \in DOMAIN t /\ t[n] = s[n]
    BY <1>1, SMTT(30)
  <2> QED
    BY <1>2, <2>1
<1>4. ASSUME NEW n \in 1..Len(s) - 1 PROVE Value(s[n].ts) <= Value(s[n + 1].ts)
  <2>1. n \in 1..Len(t) - 1 /\ n \in 1..Len(s) /\ n + 1 \in 1..Len(s)
    BY <1>1, SMTT(30)
  <2> QED
    BY <1>1, <1>2, <2>1
<1> QED
  BY <1>3, <1>4 DEF InOrder

\* The verdict on the next packet is right by its time.
LEMMA StepByTime ==
    ASSUME NEW f \in Filters, NEW P \in Filters, NEW s \in Seq(Packets), NEW v \in Seq(BOOLEAN), Len(v) = Len(s),
           Follows(f, P, s, v), ByTime(P, s, v), NEW p \in Packets
    PROVE  ByTime(P, Append(s, p), Append(v, Verdict(f, p)))
<1> DEFINE b == Verdict(f, p)
           t == Append(s, p)
           w == Append(v, b)
           n == Len(s) + 1
           g == FirstSeen(f, p)
           dt == P.frame_max_dt
<1> SUFFICES ASSUME "frame_max_dt" \in P.index, P.mode = "AND", Normal(dt), InOrder(t), NEW k \in DOMAIN t
             PROVE  /\ w[k] => ~Late(t, w, k, dt)
                    /\ P.index = {"frame_max_dt"} /\ ~P.bpf /\ ~w[k] => Late(t, w, k, dt)
  BY DEF ByTime
<1>1. b \in BOOLEAN
  BY MatchCounts
<1>2. Len(s) \in Nat /\ DOMAIN t = 1..n /\ DOMAIN s = 1..Len(s) /\ t \in Seq(Packets) /\ Len(t) = n /\ t[n] = p
      /\ \A i \in 1..Len(s) : t[i] = s[i]
  BY OneMore, SMTT(30)
<1>3. w[n] = b /\ \A i \in 1..Len(s) : w[i] = v[i]
  BY <1>1, OneMore, SMTT(30)
<1>4. CASE k \in 1..Len(s)
  <2>1. s # <<>> /\ k \in 1..Len(s) + 1
    BY <1>2, <1>4, SMTT(30)
  <2>2. Since(t, w, k) = Since(s, v, k)
    BY <2>1, SincePrefix
  <2>3. InOrder(s)
    BY OrderedPrefix
  <2> HIDE DEF t, w
  <2>4. Late(t, w, k, dt) <=> Late(s, v, k, dt)
    BY <1>2, <1>4, <2>2 DEF Late
  <2> QED
    BY <1>2, <1>3, <1>4, <2>3, <2>4 DEF ByTime
<1>5. CASE k = n
  <2>1. f.index = P.index /\ f.bpf = P.bpf /\ f.mode = P.mode /\ f.frame_max_dt = dt
    BY DEF Follows
  <2>2. /\ g \in Filters /\ g.index = f.index /\ g.mode = f.mode /\ g.frame_max_dt = f.frame_max_dt
        /\ g.frame_last_ts = IF f.first THEN p.ts ELSE f.frame_last_ts
    BY FirstSeenFields DEF Same
  <2>3. g.frame_last_ts = Since(t, w, n)
    BY <1>1, <2>2, MeasuredFrom
  <2>4. f.index # {}
    BY <2>1
  <2>5. (b => FilterCore(g, p)) /\ (~f.bpf => b = FilterCore(g, p))
    BY <2>4, VerdictCore
  <2> HIDE DEF g, b, t, w
  <2>6. /\ b => FrameDt(g, p)
        /\ P.index = {"frame_max_dt"} /\ ~P.bpf => b = FrameDt(g, p)
    BY <2>1, <2>2, <2>5, CoreOne
  <2>7. n \in 1..Len(t) /\ n \in 1..n
    BY <1>2, SMTT(30)
  <2>8. PICK j \in 1..n : Since(t, w, n) = t[j].ts
    BY <1>2, <2>7, SinceSeen
  <2>9. j \in 1..Len(t) /\ j <= n
    BY <1>2, SMTT(30)
  <2>10. Value(t[j].ts) <= Value(t[n].ts) /\ Timed(t[j].ts) /\ Timed(t[n].ts)
    BY <1>2, <2>7, <2>9, OrderedPairs, TimedPacket
  <2>11. Timed(dt)
    <3>1. dt \in TimeValues
      BY DEF Filters
    <3> QED
      BY <3>1, PicoAssumption, SMTT(30) DEF TimeValues, Timed, Normal
  <2>12. FrameDt(g, p) <=> ~(Value(p.ts) - Value(g.frame_last_ts) > Value(g.frame_max_dt))
    BY <1>2, <2>1, <2>2, <2>3, <2>8, <2>10, <2>11, DtDecides
  <2>13. Late(t, w, n, dt) <=> Value(p.ts) - Value(g.frame_last_ts) > Value(g.frame_max_dt)
    BY <1>2, <2>1, <2>2, <2>3 DEF Late
  <2> QED
    BY <1>3, <1>5, <2>6, <2>12, <2>13
<1> QED
  BY <1>2, <1>4, <1>5, SMTT(30)

\* Nothing matches any more once a packet is late.
LEMMA Latched ==
    ASSUME NEW P, NEW s \in Seq(Packets), NEW v, ByTime(P, s, v), InOrder(s),
           "frame_max_dt" \in P.index, P.mode = "AND", Normal(P.frame_max_dt), P.frame_max_dt \in TimeValues,
           NEW i \in DOMAIN s, NEW j \in DOMAIN s, i <= j, Late(s, v, i, P.frame_max_dt)
    PROVE  ~v[j]
<1> DEFINE dt == P.frame_max_dt
           Bad == {k \in 1..Len(s) : i <= k /\ v[k]}
<1>0. DOMAIN s = 1..Len(s) /\ Len(s) \in Nat
  OBVIOUS
<1>1. Bad = {}
  <2> SUFFICES ASSUME Bad # {} PROVE FALSE
    OBVIOUS
  <2>1. Bad \subseteq Nat
    BY <1>0, SMTT(30)
  <2>2. PICK k \in Bad : \A m \in Bad : k <= m
    <3> HIDE DEF Bad
    <3> QED
      BY <2>1, LeastNumber
  <2>3. k \in 1..Len(s) /\ i <= k /\ v[k]
    OBVIOUS
  <2>4. ASSUME NEW m \in 1..Len(s), i <= m, m < k PROVE ~v[m]
    <3>1. ~(k <= m)
      BY <2>3, <2>4, SMTT(30)
    <3> QED
      BY <2>2, <2>4, <3>1
  <2> HIDE DEF Bad
  <2>5. Since(s, v, k) = Since(s, v, i)
    BY <1>0, <2>3, <2>4, SinceKept
  <2>6. Value(s[i].ts) <= Value(s[k].ts) /\ Value(s[i].ts) \in Int /\ Value(s[k].ts) \in Int
    BY <1>0, <2>3, OrderedPairs, TimedPacket
  <2>7. Value(Since(s, v, i)) \in Int
    <3>1. PICK m \in 1..i : Since(s, v, i) = s[m].ts
      BY <1>0, SinceSeen
    <3>2. m \in 1..Len(s)
      BY <1>0, SMTT(30)
    <3> QED
      BY <3>1, <3>2, TimedPacket
  <2>8. Value(dt) \in Int
    <3>1. Timed(dt)
      BY PicoAssumption, SMTT(30) DEF TimeValues, Timed, Normal
    <3> QED
      BY <3>1, CompareTimes
  <2>9. Value(s[i].ts) - Value(Since(s, v, i)) > Value(dt)
    BY DEF Late
  <2>10. Value(s[k].ts) - Value(Since(s, v, k)) > Value(dt)
    BY <2>5, <2>6, <2>7, <2>8, <2>9, SMTT(30)
  <2>11. Late(s, v, k, dt)
    BY <2>10 DEF Late
  <2> QED
    BY <1>0, <2>3, <2>11 DEF ByTime
<1> QED
  BY <1>0, <1>1

-----------------------------------------------------------------------------
(* The filter and the history.                                               *)

\* filter_match on a packet read.
LEMMA ReadHistory ==
    ASSUME HistoryInv, NEW p \in Packets, ReadPacket(p), argv' = argv
    PROVE  HistoryInv'
<1>1. Verdict(filter, p) \in BOOLEAN /\ FilterMatch(filter, p) \in Filters
  BY MatchCounts DEF HistoryInv, Counted
<1>2. seen' = Append(seen, p) /\ verdict' = Append(verdict, Verdict(filter, p)) /\ filter' = FilterMatch(filter, p)
  BY DEF ReadPacket
<1>3. seen' \in Seq(Packets) /\ Len(seen') = Len(seen) + 1
  BY <1>2, OneMore DEF HistoryInv
<1>4. verdict' \in Seq(BOOLEAN) /\ Len(verdict') = Len(verdict) + 1
  BY <1>1, <1>2, OneMore, SMTT(30) DEF HistoryInv
<1> QED
  BY <1>1, <1>2, <1>3, <1>4 DEF HistoryInv

\* A step that leaves the filter and the history alone.
LEMMA QuietHistory ==
    ASSUME HistoryInv, WireInv, UNCHANGED <<tool, argv, filter, seen, verdict, peer>>,
           pc' = pc \/ pc' \notin {"set", "sent"}
    PROVE  HistoryInv' /\ WireInv'
<1>1. HistoryInv'
  BY DEF HistoryInv
<1>2. WireInv'
  BY DEF WireInv
<1> QED
  BY <1>1, <1>2

LEMMA HistoryInit ==
    ASSUME Init
    PROVE  HistoryInv /\ WireInv
<1>1. argv \in Seq(Arguments)
  <2>1. argv = <<>> \/ argv \in Argvs
    BY DEF Init
  <2>2. <<>> \in Seq(Arguments)
    OBVIOUS
  <2> QED
    BY <2>1, <2>2, CaptureAssumption
<1>2. filter \in Filters /\ filter.bpf = FALSE /\ pc \in {"set", "start"} /\ (pc = "set" => tool = "manager")
  BY InitFilterType DEF Init
<1>3. seen = <<>> /\ verdict = <<>>
  BY DEF Init
<1>4. seen \in Seq(Packets) /\ verdict \in Seq(BOOLEAN) /\ Len(verdict) = Len(seen)
  BY <1>3
<1> QED
  BY <1>1, <1>2, <1>4 DEF HistoryInv, WireInv

LEMMA HistoryStep ==
    ASSUME HistoryInv, WireInv, [Next]_vars
    PROVE  HistoryInv' /\ WireInv'
<1> USE DEF config, output
<1>1. CASE ParseArgv
  <2> DEFINE r == IF tool = "pcap2cap" THEN [ret |-> 0, filter |-> InitFilter, rest |-> argv] ELSE FilterFromArgv(argv)
  <2>1. filter' = r.filter /\ UNCHANGED <<argv, seen, verdict>> /\ pc' \in {"exit", "open"}
    BY <1>1 DEF ParseArgv, Exit
  <2>2. r.filter \in Filters
    BY InitFilterType, ParsedFilter DEF HistoryInv
  <2> HIDE DEF r
  <2>3. HistoryInv'
    BY <2>1, <2>2 DEF HistoryInv
  <2>4. WireInv'
    BY <2>1 DEF WireInv
  <2> QED
    BY <2>3, <2>4
<1>2. CASE OpenFails \/ Open \/ LoopHead \/ ReadAgain \/ ReadEnds \/ Sigint \/ Ended \/ UNCHANGED vars
  <2>1. UNCHANGED <<tool, argv, filter, seen, verdict, peer>>
    BY <1>2 DEF OpenFails, Open, LoopHead, ReadAgain, ReadEnds, Sigint, Ended, vars
  <2>2. pc' = pc \/ pc' \notin {"set", "sent"}
    BY <1>2 DEF OpenFails, Open, LoopHead, ReadAgain, ReadEnds, Sigint, Ended, vars, Exit
  <2> QED
    BY <2>1, <2>2, QuietHistory
<1>3. CASE Close
  <2> DEFINE f == [filter EXCEPT !.bpf = FALSE, !.frame_num = <<>>]
  <2>1. filter' = f /\ UNCHANGED <<argv, seen, verdict>> /\ pc' = "exit"
    BY <1>3 DEF Close, Exit
  <2>2. f \in Filters
    <3>1. <<>> \in Seq(FrameNodes)
      OBVIOUS
    <3> QED
      BY <3>1 DEF HistoryInv, Filters
  <2> HIDE DEF f
  <2>3. HistoryInv'
    BY <2>1, <2>2 DEF HistoryInv
  <2>4. WireInv'
    BY <2>1 DEF WireInv
  <2> QED
    BY <2>3, <2>4
<1>4. ASSUME NEW p \in Packets, FilterPacket(p) \/ ShowPacket(p) \/ DumpPacket(p) \/ WalkPacket(p)
      PROVE  HistoryInv' /\ WireInv'
  <2>1. ReadPacket(p) /\ argv' = argv
    BY <1>4 DEF FilterPacket, ShowPacket, DumpPacket, WalkPacket, Show
  <2>2. pc = "reading" /\ pc' \in {"reading", "close", "loop"}
    BY <1>4 DEF FilterPacket, ShowPacket, DumpPacket, WalkPacket, ReadPacket
  <2>3. HistoryInv'
    BY <2>1, ReadHistory
  <2>4. WireInv'
    BY <2>2 DEF WireInv
  <2> QED
    BY <2>3, <2>4
<1>5. ASSUME NEW p \in Packets, ConvertPacket(p) PROVE HistoryInv' /\ WireInv'
  <2>1. /\ seen' = Append(seen, p) /\ verdict' = Append(verdict, TRUE) /\ UNCHANGED <<argv, filter>>
        /\ pc' \in {"reading", "close"}
    BY <1>5 DEF ConvertPacket
  <2>2. seen' \in Seq(Packets) /\ Len(seen') = Len(seen) + 1
    BY <2>1, OneMore DEF HistoryInv
  <2>3. verdict' \in Seq(BOOLEAN) /\ Len(verdict') = Len(verdict) + 1
    BY <2>1, OneMore, SMTT(30) DEF HistoryInv
  <2>4. HistoryInv'
    BY <2>1, <2>2, <2>3 DEF HistoryInv
  <2>5. WireInv'
    BY <2>1 DEF WireInv
  <2> QED
    BY <2>4, <2>5
<1>6. ASSUME NEW s \in Settings, Set(s[1], s[2]) PROVE HistoryInv' /\ WireInv'
  <2>1. filter' = FilterSet(filter, s[1], s[2]) /\ UNCHANGED <<tool, argv, seen, verdict, pc>> /\ pc = "set"
    BY <1>6 DEF Set
  <2>2. s[1] \in Criteria /\ s[2] \in Values
    BY CaptureAssumption
  <2>3. filter \in Filters /\ filter.bpf = FALSE /\ tool = "manager"
    BY <2>1 DEF HistoryInv, WireInv
  <2>4. filter' \in Filters /\ filter'.bpf = FALSE
    BY <2>1, <2>2, <2>3, FilterSetType
  <2>5. HistoryInv'
    BY <2>1, <2>4 DEF HistoryInv
  <2>6. WireInv'
    BY <2>1, <2>3, <2>4 DEF WireInv
  <2> QED
    BY <2>5, <2>6
<1>7. CASE SetMode
  <2> DEFINE f == [filter EXCEPT !.mode = "OR"]
  <2>1. filter' = f /\ UNCHANGED <<tool, argv, seen, verdict, pc>> /\ pc = "set"
    BY <1>7 DEF SetMode
  <2>2. filter \in Filters /\ filter.bpf = FALSE /\ tool = "manager"
    BY <2>1 DEF HistoryInv, WireInv
  <2>3. f \in Filters /\ f.bpf = FALSE
    BY <2>2 DEF Filters
  <2> HIDE DEF f
  <2>4. HistoryInv'
    BY <2>1, <2>3 DEF HistoryInv
  <2>5. WireInv'
    BY <2>1, <2>2, <2>3 DEF WireInv
  <2> QED
    BY <2>4, <2>5
<1>8. CASE Send
  <2>1. UNCHANGED <<tool, argv, filter, seen, verdict>> /\ pc = "set"
    BY <1>8 DEF Send
  <2>2. PICK d \in {InitFilter, [InitFilter EXCEPT !.caplen = 0, !.first = FALSE, !.frame_counter = 0]} :
            peer' = FilterUnpack(FilterPack(filter), d)
    BY <1>8 DEF Send
  <2>3. d \in Filters /\ d.bpf = FALSE
    <3>1. InitFilter \in Filters /\ InitFilter.bpf = FALSE /\ 0 \in Int /\ 0 \in Nat
      BY InitFilterType, SMTT(30)
    <3>2. ASSUME NEW f \in Filters, f.bpf = FALSE
          PROVE  LET g == [f EXCEPT !.caplen = 0, !.first = FALSE, !.frame_counter = 0] IN g \in Filters /\ g.bpf = FALSE
      BY <3>1, <3>2 DEF Filters
    <3> QED
      BY <3>1, <3>2
  <2>4. HistoryInv'
    BY <2>1 DEF HistoryInv
  <2>5. WireInv'
    BY <2>1, <2>2, <2>3 DEF WireInv
  <2> QED
    BY <2>4, <2>5
<1> QED
  BY <1>1, <1>2, <1>3, <1>4, <1>5, <1>6, <1>7, <1>8 DEF Next

\* Every behaviour keeps both.
LEMMA HistoryAlways == Spec => [](HistoryInv /\ WireInv)
BY HistoryInit, HistoryStep, PTL DEF Spec

\* A filter that arrives at a measurement point gives the manager's verdict on every packet,
\* for any settings and any packets: the inductive invariant is that it came, through
\* filter_pack and filter_unpack, from the filter the manager still has.
THEOREM WirePreserves == Spec => []WirePreservesVerdict
<1>1. ASSUME HistoryInv, WireInv PROVE WirePreservesVerdict
  <2> SUFFICES ASSUME pc = "sent", filter.index \cap Unsent = {}, NEW p \in Packets
               PROVE  Verdict(peer, p) = Verdict(filter, p)
    BY DEF WirePreservesVerdict
  <2>1. PICK d \in Filters : d.bpf = FALSE /\ peer = FilterUnpack(FilterPack(filter), d)
    BY <1>1 DEF WireInv
  <2>2. filter \in Filters /\ filter.bpf = FALSE
    BY <1>1 DEF HistoryInv, WireInv
  <2> QED
    BY <2>1, <2>2, WireVerdict
<1> QED
  BY <1>1, HistoryAlways, PTL

-----------------------------------------------------------------------------
(* What the filter decides.                                                  *)

\* A filter that has seen no packet.
LEMMA FollowsNone ==
    ASSUME NEW P \in Filters, Unused(P)
    PROVE  Follows(P, P, <<>>, <<>>) /\ ByNumber(P, <<>>, <<>>) /\ ByTime(P, <<>>, <<>>)
<1> DEFINE r == P.frame_num
<1>1. Len(<<>>) = 0 /\ DOMAIN <<>> = {}
  OBVIOUS
<1>2. P.first = TRUE /\ P.frame_counter = Len(<<>>) + 1
  BY <1>1, SMTT(30) DEF Unused
<1>3. Apart(r) => RangesLeft(r, r, 0 + 1)
  <2>1. r \in Seq(FrameNodes)
    BY DEF Filters
  <2> HIDE DEF r
  <2>2. Len(r) \in Nat /\ \A i \in 1..Len(r) : r[i].upper \in Int
    BY <2>1, NodeBounds
  <2>3. /\ Len(r) <= Len(r) /\ Len(r) - Len(r) = 0 /\ 0 + 1 = 1 /\ 1..0 = {} /\ \A i \in 1..Len(r) : 0 + i = i
        /\ Len(r) > 1 => 1 \in 1..Len(r) - 1 /\ 1 \in 1..Len(r)
    BY <2>2, SMTT(30)
  <2>4. ASSUME Apart(r), Len(r) > 1 PROVE 1 <= r[1].upper + 1
    <3>1. 0 < r[1].upper /\ r[1].upper \in Int
      BY <2>2, <2>3, <2>4 DEF Apart
    <3> QED
      BY <3>1, SMTT(30)
  <2> QED
    BY <2>3, <2>4 DEF RangesLeft
<1> HIDE DEF r
<1>4. Follows(P, P, <<>>, <<>>)
  BY <1>1, <1>2, <1>3 DEF Follows, r
<1> QED
  BY <1>1, <1>4 DEF ByNumber, ByTime

\* The filter stays in step with the packets read.
LEMMA ReadInStep ==
    ASSUME HistoryInv, InStep, NEW p \in Packets, ReadPacket(p), argv' = argv
    PROVE  InStep'
<1>1. Parsed' = Parsed /\ Parsed \in Filters
  BY ParsedFilter DEF Parsed, HistoryInv
<1>2. seen' = Append(seen, p) /\ verdict' = Append(verdict, Verdict(filter, p)) /\ filter' = FilterMatch(filter, p)
  BY DEF ReadPacket
<1>3. /\ filter \in Filters /\ seen \in Seq(Packets) /\ verdict \in Seq(BOOLEAN) /\ Len(verdict) = Len(seen)
      /\ Follows(filter, Parsed, seen, verdict) /\ ByNumber(Parsed, seen, verdict) /\ ByTime(Parsed, seen, verdict)
  BY DEF HistoryInv, InStep
<1>4. Follows(FilterMatch(filter, p), Parsed, Append(seen, p), Append(verdict, Verdict(filter, p)))
  BY <1>1, <1>3, StepFollows
<1>5. ByNumber(Parsed, Append(seen, p), Append(verdict, Verdict(filter, p)))
  BY <1>1, <1>3, StepByNumber
<1>6. ByTime(Parsed, Append(seen, p), Append(verdict, Verdict(filter, p)))
  BY <1>1, <1>3, StepByTime
<1> QED
  BY <1>1, <1>2, <1>4, <1>5, <1>6 DEF InStep

LEMMA FilterStep ==
    ASSUME HistoryInv, WireInv, FilterInv, [Next]_vars
    PROVE  FilterInv'
<1> USE DEF config, output
<1> DEFINE Early == {"start", "open"}
           Inside == {"open", "loop", "reading", "close"}
<1>0. /\ tool # "pcap2cap" /\ pc \in Early => seen = <<>> /\ verdict = <<>>
      /\ tool # "pcap2cap" /\ pc \in Inside => InStep
  BY DEF FilterInv
<1>1. ASSUME tool' # "pcap2cap" /\ pc' \in Early => seen' = <<>> /\ verdict' = <<>>,
             tool' # "pcap2cap" /\ pc' \in Inside => InStep'
      PROVE  FilterInv'
  BY <1>1 DEF FilterInv
<1>2. CASE ParseArgv
  <2>1. UNCHANGED <<tool, argv, seen, verdict>> /\ pc = "start"
    BY <1>2 DEF ParseArgv
  <2>2. tool # "pcap2cap" => filter' = Parsed
    BY <1>2 DEF ParseArgv, Parsed
  <2>3. Parsed' = Parsed /\ Parsed \in Filters /\ Unused(Parsed)
    BY <2>1, ParsedFilter DEF Parsed, HistoryInv
  <2>4. tool # "pcap2cap" => seen' = <<>> /\ verdict' = <<>>
    BY <1>0, <2>1
  <2>5. Follows(Parsed, Parsed, <<>>, <<>>) /\ ByNumber(Parsed, <<>>, <<>>) /\ ByTime(Parsed, <<>>, <<>>)
    BY <2>3, FollowsNone
  <2>6. tool # "pcap2cap" => InStep'
    BY <2>2, <2>3, <2>4, <2>5 DEF InStep
  <2> QED
    BY <1>1, <2>1, <2>4, <2>6
<1>3. CASE OpenFails \/ Open \/ LoopHead \/ ReadAgain \/ ReadEnds \/ Sigint \/ Ended \/ UNCHANGED vars
  <2>1. UNCHANGED <<tool, argv, filter, seen, verdict>>
    BY <1>3 DEF OpenFails, Open, LoopHead, ReadAgain, ReadEnds, Sigint, Ended, vars
  <2>2. (pc' \in Early => pc \in Early) /\ (pc' \in Inside => pc \in Inside)
    BY <1>3 DEF OpenFails, Open, LoopHead, ReadAgain, ReadEnds, Sigint, Ended, vars, Exit
  <2>3. InStep => InStep'
    BY <2>1 DEF InStep, Parsed
  <2> HIDE DEF Early, Inside
  <2> QED
    BY <1>0, <1>1, <2>1, <2>2, <2>3
<1>4. CASE Close
  <2>1. pc' = "exit"
    BY <1>4 DEF Close, Exit
  <2> QED
    BY <1>1, <2>1
<1>5. ASSUME NEW p \in Packets, FilterPacket(p) \/ ShowPacket(p) \/ DumpPacket(p) \/ WalkPacket(p)
      PROVE  FilterInv'
  <2>1. ReadPacket(p) /\ argv' = argv /\ tool' = tool
    BY <1>5 DEF FilterPacket, ShowPacket, DumpPacket, WalkPacket, Show
  <2>2. pc = "reading" /\ pc' \in {"reading", "close", "loop"}
    BY <1>5 DEF FilterPacket, ShowPacket, DumpPacket, WalkPacket, ReadPacket
  <2>3. tool # "pcap2cap" => InStep'
    BY <1>0, <2>1, <2>2, ReadInStep
  <2> QED
    BY <1>1, <2>1, <2>2, <2>3
<1>6. ASSUME NEW p \in Packets, ConvertPacket(p) PROVE FilterInv'
  <2>1. tool' = "pcap2cap"
    BY <1>6 DEF ConvertPacket
  <2> QED
    BY <1>1, <2>1
<1>7. CASE SetMode \/ Send \/ \E s \in Settings : Set(s[1], s[2])
  <2>1. pc' \in {"set", "sent"}
    BY <1>7 DEF SetMode, Send, Set
  <2> QED
    BY <1>1, <2>1
<1> QED
  BY <1>2, <1>3, <1>4, <1>5, <1>6, <1>7 DEF Next

LEMMA FilterAlways == Spec => [](HistoryInv /\ FilterInv)
<1>1. ASSUME Init PROVE FilterInv
  <2>1. pc \in {"set", "start"} /\ seen = <<>> /\ verdict = <<>>
    BY <1>1 DEF Init
  <2> QED
    BY <2>1 DEF FilterInv
<1> QED
  BY <1>1, FilterStep, HistoryAlways, PTL DEF Spec

\* --frame-num selects exactly the packets whose number lies in a range, for any ranges
\* that are in order and leave a gap, any packets and any number of them, in every tool
\* that reads through a filter.
THEOREM FrameNumbers == Spec => []FrameNumSelects
<1>1. ASSUME FilterInv PROVE FrameNumSelects
  BY <1>1 DEF FilterInv, InStep, FrameNumSelects, Filtering, ByNumber
<1> QED
  BY <1>1, FilterAlways, PTL

\* --frame-max-dt: no packet is matched behind one that came too long after the last match,
\* for any packets in order and any other criteria; and alone the option rejects no other.
\* The inductive invariant is that frame_last_ts is the time of the last match (or of the
\* first packet); that a late packet makes all later ones late then follows from the order.
THEOREM RejectionStays == Spec => []RejectionLatches
<1>1. ASSUME HistoryInv, FilterInv PROVE RejectionLatches
  <2> DEFINE dt == Parsed.frame_max_dt
  <2> SUFFICES ASSUME Filtering, InOrder(seen), "frame_max_dt" \in Parsed.index, Parsed.mode = "AND", Normal(dt)
               PROVE  /\ \A i, j \in DOMAIN seen : i <= j /\ Late(seen, verdict, i, dt) => ~verdict[j]
                      /\ Parsed.index = {"frame_max_dt"} /\ ~Parsed.bpf
                         => \A n \in DOMAIN seen : ~verdict[n] => \E i \in 1..n : Late(seen, verdict, i, dt)
    BY DEF RejectionLatches
  <2>1. ByTime(Parsed, seen, verdict)
    BY <1>1 DEF FilterInv, InStep, Filtering
  <2>2. seen \in Seq(Packets) /\ dt \in TimeValues
    BY <1>1, ParsedFilter DEF HistoryInv, Parsed, Filters
  <2>3. ASSUME NEW i \in DOMAIN seen, NEW j \in DOMAIN seen, i <= j, Late(seen, verdict, i, dt) PROVE ~verdict[j]
    BY <2>1, <2>2, <2>3, Latched
  <2>4. ASSUME Parsed.index = {"frame_max_dt"}, ~Parsed.bpf, NEW n \in DOMAIN seen, ~verdict[n]
        PROVE  \E i \in 1..n : Late(seen, verdict, i, dt)
    <3>1. Late(seen, verdict, n, dt)
      BY <2>1, <2>4 DEF ByTime
    <3>2. n \in 1..n
      BY <2>2, SMTT(30)
    <3> QED
      BY <3>1, <3>2
  <2> QED
    BY <2>3, <2>4
<1> QED
  BY <1>1, FilterAlways, PTL

-----------------------------------------------------------------------------
(* What capfilter writes.                                                    *)

\* One packet more is written.
LEMMA WholeMore ==
    ASSUME NEW o \in Seq(Records), NEW chosen, Whole(o, chosen), NEW pkt \in Records,
           NEW n \in Nat, pkt.n = n, \A c \in chosen : c < n
    PROVE  Whole(Append(o, pkt), chosen \cup {n})
<1> DEFINE t == Append(o, pkt)
           L == Len(o) + 1
<1>1. Len(o) \in Nat /\ DOMAIN t = 1..L /\ DOMAIN o = 1..Len(o) /\ t[L] = pkt /\ \A k \in 1..Len(o) : t[k] = o[k]
  BY OneMore, SMTT(30)
<1>2. \A k : k \in 1..L <=> k \in 1..Len(o) \/ k = L
  BY <1>1, SMTT(30)
<1>3. {o[k].n : k \in DOMAIN o} = chosen /\ \A j, k \in DOMAIN o : j < k => o[j].n < o[k].n
  BY DEF Whole
<1> HIDE DEF t
<1>4. {t[k].n : k \in DOMAIN t} = chosen \cup {n}
  <2>1. ASSUME NEW x \in chosen \cup {n} PROVE \E k \in DOMAIN t : x = t[k].n
    BY <1>1, <1>2, <1>3
  <2>2. ASSUME NEW k \in DOMAIN t PROVE t[k].n \in chosen \cup {n}
    BY <1>1, <1>2, <1>3
  <2> QED
    BY <2>1, <2>2
<1>5. ASSUME NEW j \in DOMAIN t, NEW k \in DOMAIN t, j < k PROVE t[j].n < t[k].n
  <2>1. j \in 1..Len(o)
    BY <1>1, <1>5, SMTT(30)
  <2>2. CASE k \in 1..Len(o)
    BY <1>1, <1>3, <1>5, <2>1, <2>2
  <2>3. CASE k = L
    <3>1. o[j].n \in chosen
      BY <1>1, <1>3, <2>1
    <3> QED
      BY <1>1, <2>1, <2>3, <3>1
  <2> QED
    BY <1>1, <1>2, <2>2, <2>3
<1> QED
  BY <1>4, <1>5 DEF Whole, t

\* One packet more is read, and at most one more record is written.
LEMMA WithinMore ==
    ASSUME NEW s \in Seq(Packets), NEW p \in Packets, NEW o \in Seq(Records), NEW c \in Int, Within(s, o, c)
    PROVE  /\ Within(Append(s, p), o, c)
           /\ \A pkt \in Records : pkt.n = Len(s) + 1 /\ pkt.caplen = Truncated(p, c) => Within(Append(s, p), Append(o, pkt), c)
<1> DEFINE t == Append(s, p)
           n == Len(s) + 1
<1>1. Len(s) \in Nat /\ DOMAIN t = 1..n /\ DOMAIN s = 1..Len(s) /\ t[n] = p /\ \A k \in 1..Len(s) : t[k] = s[k]
  BY OneMore, SMTT(30)
<1>2. n \in 1..n /\ \A k \in 1..Len(s) : k \in 1..n
  BY <1>1, SMTT(30)
<1> HIDE DEF t
<1>3. Within(t, o, c)
  <2>1. ASSUME NEW k \in DOMAIN o
        PROVE  o[k].n \in DOMAIN t /\ o[k].caplen <= t[o[k].n].caplen /\ (c # -1 => o[k].caplen <= c)
    BY <1>1, <1>2 DEF Within
  <2> QED
    BY <2>1 DEF Within
<1>4. ASSUME NEW pkt \in Records, pkt.n = n, pkt.caplen = Truncated(p, c) PROVE Within(t, Append(o, pkt), c)
  <2> DEFINE u == Append(o, pkt)
             L == Len(o) + 1
  <2>1. Len(o) \in Nat /\ DOMAIN u = 1..L /\ DOMAIN o = 1..Len(o) /\ u[L] = pkt /\ \A k \in 1..Len(o) : u[k] = o[k]
    BY OneMore, SMTT(30)
  <2>2. p.caplen \in Int
    BY CaptureAssumption, SMTT(30)
  <2>3. pkt.caplen <= p.caplen /\ (c # -1 => pkt.caplen <= c)
    BY <1>4, <2>2, SMTT(30) DEF Truncated
  <2> HIDE DEF u
  <2>4. ASSUME NEW k \in DOMAIN u
        PROVE  u[k].n \in DOMAIN t /\ u[k].caplen <= t[u[k].n].caplen /\ (c # -1 => u[k].caplen <= c)
    <3>1. CASE k \in 1..Len(o)
      BY <1>3, <2>1, <3>1 DEF Within
    <3>2. CASE k = L
      BY <1>1, <1>2, <1>4, <2>1, <2>3, <3>2
    <3> QED
      BY <2>1, <3>1, <3>2, SMTT(30)
  <2> QED
    BY <2>4 DEF Within, u
<1> QED
  BY <1>3, <1>4 DEF t

\* The packet goes where it belongs.
LEMMA PlacedMore ==
    ASSUME NEW s \in Seq(Packets), NEW v \in Seq(BOOLEAN), Len(v) = Len(s), NEW p \in Packets, NEW b \in BOOLEAN,
           NEW o \in Seq(Records), NEW r \in Seq(Records), NEW invert, NEW rejects \in BOOLEAN,
           Placed(s, v, o, r, invert, rejects), NEW pkt \in Records, pkt.n = Len(s) + 1
    PROVE  LET post == b # invert
           IN Placed(Append(s, p), Append(v, b), IF post THEN Append(o, pkt) ELSE o,
                     IF ~post /\ rejects THEN Append(r, pkt) ELSE r, invert, rejects)
<1> DEFINE t == Append(s, p)
           w == Append(v, b)
           n == Len(s) + 1
           Yes == {k \in DOMAIN s : v[k] # invert}
           No == {k \in DOMAIN s : v[k] = invert}
<1>1. Len(s) \in Nat /\ DOMAIN t = 1..n /\ DOMAIN s = 1..Len(s)
  BY OneMore, SMTT(30)
<1>2. w[n] = b /\ \A k \in 1..Len(s) : w[k] = v[k]
  BY OneMore, SMTT(30)
<1>3. n \in Nat /\ (\A k : k \in 1..n <=> k \in 1..Len(s) \/ k = n) /\ \A k \in 1..Len(s) : k < n
  BY <1>1, SMTT(30)
<1>4. Whole(o, Yes) /\ (rejects => Whole(r, No)) /\ (~rejects => r = <<>>)
  BY DEF Placed
<1> HIDE DEF t, w
<1>5. CASE b # invert
  <2>1. {k \in DOMAIN t : w[k] # invert} = Yes \cup {n}
    BY <1>1, <1>2, <1>3, <1>5
  <2>2. {k \in DOMAIN t : w[k] = invert} = No
    BY <1>1, <1>2, <1>3, <1>5
  <2>3. \A c \in Yes : c < n
    BY <1>1, <1>3
  <2> HIDE DEF Yes, No, n
  <2>4. Whole(Append(o, pkt), Yes \cup {n})
    BY <1>3, <1>4, <2>3, WholeMore DEF n
  <2>5. Placed(t, w, Append(o, pkt), r, invert, rejects)
    BY <1>4, <2>1, <2>2, <2>4 DEF Placed
  <2> QED
    BY <1>5, <2>5 DEF t, w
<1>6. CASE b = invert
  <2>1. {k \in DOMAIN t : w[k] # invert} = Yes
    BY <1>1, <1>2, <1>3, <1>6
  <2>2. {k \in DOMAIN t : w[k] = invert} = No \cup {n}
    BY <1>1, <1>2, <1>3, <1>6
  <2>3. \A c \in No : c < n
    BY <1>1, <1>3
  <2> HIDE DEF Yes, No, n
  <2>4. rejects => Whole(Append(r, pkt), No \cup {n})
    BY <1>3, <1>4, <2>3, WholeMore DEF n
  <2>5. Placed(t, w, o, IF rejects THEN Append(r, pkt) ELSE r, invert, rejects)
    BY <1>4, <2>1, <2>2, <2>4 DEF Placed
  <2> QED
    BY <1>6, <2>5 DEF t, w
<1> QED
  BY <1>5, <1>6

\* Nothing is read yet: whatever the options, nothing is written.
LEMMA PlacedNone ==
    ASSUME NEW invert, NEW rejects \in BOOLEAN, NEW c
    PROVE  Placed(<<>>, <<>>, <<>>, <<>>, invert, rejects) /\ Within(<<>>, <<>>, c)
<1>1. DOMAIN <<>> = {}
  OBVIOUS
<1>2. Whole(<<>>, {})
  BY <1>1 DEF Whole
<1>3. ASSUME NEW v PROVE {n \in DOMAIN <<>> : v[n] # invert} = {} /\ {n \in DOMAIN <<>> : v[n] = invert} = {}
  BY <1>1
<1> QED
  BY <1>1, <1>2, <1>3 DEF Placed, Within

\* capfilter reads a packet and writes it, or fails to.
LEMMA CopyPacket ==
    ASSUME HistoryInv, Copying, GivingUp, NEW p \in Packets, FilterPacket(p)
    PROVE  Copying' /\ GivingUp' /\ Empty'
<1> DEFINE b == Verdict(filter, p)
           post == b # opt.invert
           pkt == [n |-> read + 1, caplen |-> Truncated(p, filter.caplen)]
<1>1. pc = "reading" /\ pc' \in {"close", "loop"} /\ opt' = opt
  BY DEF FilterPacket, ReadPacket
<1>2. ~failed /\ Placed(seen, verdict, out, rej, opt.invert, opt.rejects)
  BY <1>1 DEF GivingUp, Copying
<1>3. seen' = Append(seen, p) /\ verdict' = Append(verdict, b) /\ filter' = FilterMatch(filter, p) /\ read' = read + 1
  BY DEF FilterPacket, ReadPacket
<1>4. PICK fails \in {FALSE, post \/ opt.rejects} :
            /\ out' = IF post /\ ~fails THEN Append(out, pkt) ELSE out
            /\ rej' = IF ~post /\ opt.rejects /\ ~fails THEN Append(rej, pkt) ELSE rej
            /\ ret' = IF fails THEN EIO ELSE 0
            /\ keep_running' = (keep_running /\ ~fails)
            /\ failed' = (failed \/ fails)
  BY DEF FilterPacket, WriteFailed
<1>5. b \in BOOLEAN /\ filter'.caplen = filter.caplen
  BY <1>3, MatchCounts DEF HistoryInv, Counted, Same
<1>6. fails \in BOOLEAN /\ failed' \in BOOLEAN /\ (failed' <=> fails)
  BY <1>2, <1>4 DEF Copying
<1>7. /\ seen \in Seq(Packets) /\ verdict \in Seq(BOOLEAN) /\ Len(verdict) = Len(seen) /\ filter.caplen \in Int
      /\ out \in Seq(Records) /\ rej \in Seq(Records) /\ read = Len(seen) /\ opt.rejects \in BOOLEAN
      /\ Within(seen, out, filter.caplen) /\ Within(seen, rej, filter.caplen)
  BY DEF HistoryInv, Copying, Filters
<1>8. pkt \in Records /\ pkt.n = Len(seen) + 1 /\ pkt.caplen = Truncated(p, filter.caplen)
  <2>1. p.caplen \in Int /\ Len(seen) + 1 \in Nat
    BY <1>7, CaptureAssumption, SMTT(30)
  <2>2. Truncated(p, filter.caplen) \in Int
    BY <1>7, <2>1 DEF Truncated
  <2> QED
    BY <1>7, <2>1, <2>2 DEF Records
<1> HIDE DEF b, pkt
<1>9. out' \in Seq(Records) /\ rej' \in Seq(Records) /\ read' = Len(seen')
  <2>1. Append(out, pkt) \in Seq(Records) /\ Append(rej, pkt) \in Seq(Records) /\ Len(Append(seen, p)) = Len(seen) + 1
    BY <1>7, <1>8, OneMore, SMTT(30)
  <2> QED
    BY <1>3, <1>4, <1>7, <2>1
<1>10. Within(seen', out', filter'.caplen) /\ Within(seen', rej', filter'.caplen)
  <2>1. Within(Append(seen, p), out, filter.caplen) /\ Within(Append(seen, p), Append(out, pkt), filter.caplen)
    BY <1>7, <1>8, WithinMore
  <2>2. Within(Append(seen, p), rej, filter.caplen) /\ Within(Append(seen, p), Append(rej, pkt), filter.caplen)
    BY <1>7, <1>8, WithinMore
  <2> QED
    BY <1>3, <1>4, <1>5, <2>1, <2>2
<1>11. ~failed' => Placed(seen', verdict', out', rej', opt'.invert, opt'.rejects)
  <2> SUFFICES ASSUME ~fails PROVE Placed(seen', verdict', out', rej', opt'.invert, opt'.rejects)
    BY <1>6
  <2>1. Placed(Append(seen, p), Append(verdict, b), IF b # opt.invert THEN Append(out, pkt) ELSE out,
               IF ~(b # opt.invert) /\ opt.rejects THEN Append(rej, pkt) ELSE rej, opt.invert, opt.rejects)
    BY <1>2, <1>5, <1>7, <1>8, PlacedMore, SMTT(30)
  <2>2. /\ out' = IF b # opt.invert THEN Append(out, pkt) ELSE out
        /\ rej' = IF ~(b # opt.invert) /\ opt.rejects THEN Append(rej, pkt) ELSE rej
    BY <1>4
  <2> QED
    BY <1>1, <1>3, <2>1, <2>2
<1>12. Copying'
  BY <1>1, <1>6, <1>7, <1>9, <1>10, <1>11 DEF Copying
<1>13. GivingUp'
  BY <1>1, <1>4, <1>6 DEF GivingUp
<1>14. Empty'
  BY <1>1 DEF Empty
<1> QED
  BY <1>12, <1>13, <1>14

\* A file that has lost its end.
LEMMA CutShape ==
    ASSUME NEW o \in Seq(Records), NEW c \in Flushed(o)
    PROVE  DOMAIN c \subseteq DOMAIN o /\ (\A k \in DOMAIN c : c[k] = o[k]) /\ DOMAIN o \subseteq Nat
           /\ \A k \in DOMAIN o \ DOMAIN c : \A j \in DOMAIN c : j < k
<1>1. PICK m \in 0..Len(o) : c = SubSeq(o, 1, m)
  BY DEF Flushed
<1>2. Len(o) \in Nat /\ DOMAIN o = 1..Len(o) /\ m \in Nat /\ m <= Len(o)
  OBVIOUS
<1>3. DOMAIN c = 1..m /\ \A k \in 1..m : c[k] = o[k]
  BY <1>1, <1>2, SMTT(30)
<1> QED
  BY <1>2, <1>3, SMTT(30)

\* What it has left of the packets it had is all of them up to one.
LEMMA CutHolds ==
    ASSUME NEW o \in Seq(Records), NEW c \in Flushed(o), NEW chosen, Whole(o, chosen), NEW cut, cut = (c # o)
    PROVE  Holds(c, chosen, cut)
<1>1. /\ DOMAIN c \subseteq DOMAIN o /\ (\A k \in DOMAIN c : c[k] = o[k]) /\ DOMAIN o \subseteq Nat
      /\ \A k \in DOMAIN o \ DOMAIN c : \A j \in DOMAIN c : j < k
  BY CutShape
<1>2. {o[k].n : k \in DOMAIN o} = chosen /\ \A j, k \in DOMAIN o : j < k => o[j].n < o[k].n
  BY DEF Whole
<1>3. ASSUME NEW n \in chosen, n \notin {c[k].n : k \in DOMAIN c} PROVE cut /\ \A j \in DOMAIN c : c[j].n < n
  <2>1. PICK k \in DOMAIN o : o[k].n = n
    BY <1>2
  <2>2. k \notin DOMAIN c
    BY <1>1, <1>3, <2>1
  <2>3. c # o
    BY <2>2
  <2>4. ASSUME NEW j \in DOMAIN c PROVE c[j].n < n
    <3>1. j < k /\ j \in DOMAIN o /\ c[j] = o[j]
      BY <1>1, <2>2
    <3> QED
      BY <1>2, <2>1, <3>1
  <2> QED
    BY <2>3, <2>4
<1>4. {c[k].n : k \in DOMAIN c} \subseteq chosen
  BY <1>1, <1>2
<1>5. \A j, k \in DOMAIN c : j < k => c[j].n < c[k].n
  BY <1>1, <1>2
<1> QED
  BY <1>3, <1>4, <1>5 DEF Holds

\* None of them has changed.
LEMMA CutWithin ==
    ASSUME NEW s, NEW o \in Seq(Records), NEW c \in Flushed(o), NEW caplen, Within(s, o, caplen)
    PROVE  Within(s, c, caplen)
BY CutShape DEF Within

\* There was nothing to lose.
LEMMA CutEmpty ==
    ASSUME NEW o, NEW c \in Flushed(o), o = <<>>
    PROVE  c = <<>>
BY DEF Flushed

\* Every step of capfilter.
LEMMA CopyStep ==
    ASSUME HistoryInv, WireInv, CopyInv, [Next]_vars
    PROVE  CopyInv'
<1> USE DEF config, output
<1>0. tool' = tool
  BY DEF Next, vars, ParseArgv, OpenFails, Open, LoopHead, ReadAgain, ReadEnds, Sigint, Close, FilterPacket, ShowPacket,
         DumpPacket, WalkPacket, Show, ConvertPacket, Set, SetMode, Send, Ended
<1> SUFFICES ASSUME tool = "capfilter" PROVE CopyInv'
  BY <1>0 DEF CopyInv
<1>1. pc # "exit" => Copying /\ GivingUp /\ Empty
  BY DEF CopyInv
<1>2. ASSUME pc' = "exit", status' # 0 PROVE CopyInv'
  BY <1>2 DEF CopyInv, ExitZeroMeansWritten
<1>3. CASE ParseArgv
  <2>1. UNCHANGED <<seen, verdict, out, rej, read, failed, ret, keep_running>> /\ pc = "start" /\ pc' \in {"open", "exit"}
    BY <1>3 DEF ParseArgv, Exit
  <2>2. seen = <<>> /\ out = <<>> /\ rej = <<>> /\ ~failed
    BY <1>1, <2>1 DEF Empty
  <2>3. verdict = <<>>
    BY <2>2 DEF HistoryInv
  <2>4. opt'.rejects \in BOOLEAN
    <3> DEFINE r == IF tool = "pcap2cap" THEN [ret |-> 0, filter |-> InitFilter, rest |-> argv] ELSE FilterFromArgv(argv)
    <3>1. \/ opt' = opt
          \/ opt' = CASE tool = "capfilter" -> CapfilterOptions(r.rest)
                      [] tool = "capshow"   -> CapshowOptions(r.rest)
                      [] tool = "capwalk"   -> CapwalkOptions(r.rest)
                      [] tool = "cap2pcap"  -> Cap2pcapOptions(r.rest)
                      [] tool = "pcap2cap"  -> Pcap2capOptions(r.rest)
      BY <1>3 DEF ParseArgv
    <3> HIDE DEF r
    <3>2. opt' = opt \/ opt' = CapfilterOptions(r.rest)
      BY <3>1, SMTT(30)
    <3>3. CapfilterOptions(r.rest).rejects = Given(r.rest, "rejects")
      BY DEF CapfilterOptions
    <3>4. Given(r.rest, "rejects") \in BOOLEAN
      BY DEF Given
    <3> QED
      BY <1>1, <2>1, <3>2, <3>3, <3>4 DEF Copying
  <2>5. Placed(<<>>, <<>>, <<>>, <<>>, opt'.invert, opt'.rejects) /\ Within(<<>>, <<>>, filter'.caplen)
    BY <2>4, PlacedNone
  <2>6. Copying'
    BY <1>1, <2>1, <2>2, <2>3, <2>4, <2>5 DEF Copying
  <2>7. GivingUp' /\ Empty'
    BY <2>1, <2>2 DEF GivingUp, Empty
  <2>8. pc' = "exit" => status' # 0
    <3>1. pc' = "exit" => status' = 1
      BY <1>3 DEF ParseArgv, Exit
    <3> QED
      BY <3>1, SMTT(30)
  <2> QED
    BY <1>2, <2>6, <2>7, <2>8 DEF CopyInv
<1>4. CASE OpenFails
  <2>1. pc' = "exit" /\ status' = 1
    BY <1>4 DEF OpenFails, Exit
  <2>2. status' # 0
    BY <2>1, SMTT(30)
  <2> QED
    BY <1>2, <2>1, <2>2
<1>5. CASE Ended \/ UNCHANGED vars
  <2>1. UNCHANGED <<tool, pc, status, opt, filter, out, rej, read, failed, lost, seen, verdict, ret, keep_running>>
    BY <1>5 DEF Ended, vars
  <2> QED
    BY <2>1 DEF CopyInv, Copying, GivingUp, Empty, ExitZeroMeansWritten
<1>6. CASE Open \/ LoopHead \/ ReadAgain \/ ReadEnds \/ Sigint
  <2>1. /\ UNCHANGED <<filter, opt, seen, verdict, out, rej, read, failed>>
        /\ pc # "exit" /\ pc' \in {"loop", "reading", "close", "aborted"}
    BY <1>6 DEF Open, LoopHead, ReadAgain, ReadEnds, Sigint
  <2>2. Copying' /\ Empty'
    BY <1>1, <2>1 DEF Copying, Empty
  <2>3. GivingUp'
    <3> SUFFICES ASSUME failed PROVE GivingUp'
      BY <2>1 DEF GivingUp
    <3>1. ret = EIO /\ keep_running = FALSE /\ pc \in {"loop", "close", "aborted"}
      BY <1>1, <2>1 DEF GivingUp
    <3>2. LoopHead \/ Sigint
      BY <1>6, <3>1 DEF Open, ReadAgain, ReadEnds
    <3> QED
      BY <3>1, <3>2 DEF LoopHead, Sigint, GivingUp
  <2> QED
    BY <2>1, <2>2, <2>3 DEF CopyInv
<1>7. CASE Close
  <2>1. /\ UNCHANGED <<opt, seen, verdict, failed>> /\ pc = "close" /\ pc' = "exit"
        /\ filter' = [filter EXCEPT !.bpf = FALSE, !.frame_num = <<>>]
        /\ status' = IF ret \notin {0, -1} THEN 1 ELSE 0
        /\ out' \in Flushed(out) /\ rej' \in Flushed(rej)
        /\ lost' = [out |-> out' # out, rej |-> rej' # rej]
    BY <1>7 DEF Close, Exit
  <2>2. filter'.caplen = filter.caplen
    BY <2>1 DEF HistoryInv, Filters
  <2>3. Copying /\ GivingUp
    BY <1>1, <2>1
  <2>4. CASE failed
    <3>1. ret = EIO
      BY <2>3, <2>4 DEF GivingUp
    <3>2. EIO \notin {0, -1} /\ 1 # 0
      BY SMTT(30) DEF EIO
    <3> QED
      BY <1>2, <2>1, <3>1, <3>2
  <2>5. CASE ~failed
    <3>1. /\ Within(seen, out, filter.caplen) /\ Within(seen, rej, filter.caplen) /\ out \in Seq(Records) /\ rej \in Seq(Records)
          /\ Placed(seen, verdict, out, rej, opt.invert, opt.rejects)
      BY <2>3, <2>5 DEF Copying
    <3>2. Within(seen, out', filter.caplen) /\ Within(seen, rej', filter.caplen)
      BY <2>1, <3>1, CutWithin
    <3>3. lost'.out = (out' # out) /\ lost'.rej = (rej' # rej)
      BY <2>1
    <3>4. Holds(out', {n \in DOMAIN seen : verdict[n] # opt.invert}, lost'.out)
      BY <2>1, <3>1, <3>3, CutHolds DEF Placed
    <3>5. opt.rejects => Holds(rej', {n \in DOMAIN seen : verdict[n] = opt.invert}, lost'.rej)
      BY <2>1, <3>1, <3>3, CutHolds DEF Placed
    <3>6. ~opt.rejects => rej' = <<>>
      BY <2>1, <3>1, CutEmpty DEF Placed
    <3>7. ExitZeroMeansWritten'
      BY <2>1, <2>2, <3>2, <3>4, <3>5, <3>6 DEF ExitZeroMeansWritten, Within
    <3> QED
      BY <2>1, <3>7 DEF CopyInv
  <2> QED
    BY <2>4, <2>5
<1>8. ASSUME NEW p \in Packets, FilterPacket(p) PROVE CopyInv'
  <2>1. pc = "reading" /\ pc' \in {"close", "loop"}
    BY <1>8 DEF FilterPacket, ReadPacket
  <2> QED
    BY <1>1, <1>8, <2>1, CopyPacket DEF CopyInv
<1>9. ASSUME NEW p \in Packets, ShowPacket(p) \/ DumpPacket(p) \/ WalkPacket(p) \/ ConvertPacket(p) PROVE FALSE
  BY <1>9 DEF ShowPacket, DumpPacket, WalkPacket, ConvertPacket
<1>10. CASE SetMode \/ Send \/ \E s \in Settings : Set(s[1], s[2])
  <2>1. pc = "set"
    BY <1>10 DEF SetMode, Send, Set
  <2> QED
    BY <2>1 DEF WireInv
<1> QED
  BY <1>3, <1>4, <1>5, <1>6, <1>7, <1>8, <1>9, <1>10 DEF Next

\* capfilter exits with 0 only if every packet it read is where it belongs, for any command
\* line, any packets and any number of them, and whichever write fails.  The invariant says
\* that behind a failed write the tool is on its way out with ret = EIO, and that the two
\* files hold exactly what they should otherwise; closing them may lose the end of either.
THEOREM ExitZero == Spec => []ExitZeroMeansWritten
<1>1. ASSUME Init PROVE CopyInv
  <2>1. /\ out = <<>> /\ rej = <<>> /\ seen = <<>> /\ verdict = <<>> /\ read = 0 /\ failed = FALSE
        /\ opt.rejects = FALSE /\ pc # "exit"
    BY <1>1 DEF Init, NoOptions
  <2>2. out \in Seq(Records) /\ rej \in Seq(Records) /\ Len(seen) = 0
    BY <2>1
  <2>3. Placed(seen, verdict, out, rej, opt.invert, opt.rejects) /\ Within(seen, out, filter.caplen) /\ Within(seen, rej, filter.caplen)
    BY <2>1, PlacedNone
  <2> QED
    BY <2>1, <2>2, <2>3 DEF CopyInv, Copying, GivingUp, Empty
<1>2. ASSUME CopyInv PROVE ExitZeroMeansWritten
  BY <1>2 DEF CopyInv, ExitZeroMeansWritten
<1> QED
  BY <1>1, <1>2, CopyStep, HistoryAlways, PTL DEF Spec

=============================================================================
