------------------------------- MODULE Address ------------------------------
(***************************************************************************)
(* src/address.c: where a stream is, from the text of a command line.      *)
(*                                                                         *)
(* A text is a record: its prefix before "://" ("none" without one), what  *)
(* the rest is (eth: an Ethernet address in one of the accepted spellings, *)
(* ip: an IPv4 address), mcast for a multicast one, and the name it is as  *)
(* a file.  zero says that the lowest octet of the memory address of the   *)
(* text is 0.                                                              *)
(***************************************************************************)
EXTENDS Integers, Sequences

Texts ==
    [prefix : {"none", "tcp", "udp", "eth", "file", "fifo", "other"}, eth : BOOLEAN, ip : BOOLEAN, mcast : BOOLEAN,
     name : Int \X Int, zero : BOOLEAN]

\* An address all of whose octets are 0.
NoAddr == [type |-> "capfile", flags |-> {}, name |-> <<0, 0>>, mcast |-> FALSE, set |-> FALSE]

\* The member of the union that holds the text is a pointer, and stream_addr_is_set
\* looks at its first octet.
FileAddr(type, name, flags, zero) ==
    [type |-> type, flags |-> flags, name |-> name, mcast |-> FALSE, set |-> type # "capfile" \/ ~zero]

NoName == <<-3, 0>>
NetAddr(type, t) == [type |-> type, flags |-> {}, name |-> NoName, mcast |-> t.mcast, set |-> TRUE]

\* homogenize_eth_addr and eth_aton.
AtonEthernet(t) ==
    [ret |-> IF t.eth THEN "ok" ELSE "EINVAL", addr |-> NetAddr("ethernet", t)]

AtonInet(type, t) ==
    [ret |-> IF t.ip THEN "ok" ELSE "EINVAL", addr |-> NetAddr(type, t)]

AtonFile(type, t, flags) ==
    [ret |-> "ok", addr |-> FileAddr(type, t.name, flags \cup {"LOCAL"}, t.zero)]

\* stream_addr_aton with STREAM_ADDR_GUESS.
stream_addr_aton(t) ==
    CASE t.prefix = "tcp"   -> AtonInet("tcp", t)
      [] t.prefix = "udp"   -> AtonInet("udp", t)
      [] t.prefix = "eth"   -> AtonEthernet(t)
      [] t.prefix = "file"  -> AtonFile("capfile", t, {})
      [] t.prefix = "fifo"  -> AtonFile("fifo", t, {"UNLINK"})
      [] t.prefix = "other" -> [ret |-> "EINVAL", addr |-> NetAddr("guess", t)]
      [] t.prefix = "none"  -> IF AtonEthernet(t).ret = "ok" THEN AtonEthernet(t) ELSE AtonFile("capfile", t, {})

\* stream_addr_str.
stream_addr_str(name, flags, zero) == FileAddr("capfile", name, flags \cup {"LOCAL"}, zero)

\* stream_addr_is_set.
stream_addr_is_set(a) == a.set
=============================================================================
