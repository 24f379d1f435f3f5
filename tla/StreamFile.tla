----------------------------- MODULE StreamFile -----------------------------
(***************************************************************************)
(* src/stream_file.c: opening and creating capfiles.                       *)
(*                                                                         *)
(* A file is a record of what its first octets say: magic, or legacy = 5   *)
(* or 6 for the headers without one; version; header_offset; comment_size; *)
(* the extension headers that follow the header; and its size.             *)
(***************************************************************************)
EXTENDS Integers, Sequences

CONSTANTS
    HEADER,          \* sizeof(struct file_header_t)
    LEGACY,          \* sizeof(struct file_header_05) and of file_header_06
    PLAIN,           \* a header_offset above it announces extensions (216)
    EXT,             \* sizeof(struct file_extension)
    VERSION          \* <<major, minor>> of this library

\* The header has 216 octets, those above which extensions are looked for.
ASSUME HeaderAssumption ==
    HEADER \in Nat /\ PLAIN \in Nat /\ HEADER <= PLAIN /\ VERSION \in Nat \X Nat

CapFile ==
    [size : Int, magic : BOOLEAN, legacy : Nat, version : Nat \X Nat, header_offset : Nat, comment_size : Nat,
     exts : Seq([type : {"NONE", "PADDING"}, next_offset : Nat])]

\* A file without a header.
Headless(size) ==
    [size |-> size, magic |-> FALSE, legacy |-> 0, version |-> <<0, 0>>, header_offset |-> 0, comment_size |-> 0,
     exts |-> <<>>]
NoFile == Headless(-1)
Fifo == Headless(-2)
EmptyFile == Headless(0)

\* is_valid_version.
is_valid_version(v) == v[1] <= VERSION[1] /\ v[2] <= VERSION[2]

\* load_legacy_05, load_legacy_06: the header a file has for stream_file_open.
LoadHeader(f) ==
    IF f.magic THEN [version |-> f.version, offset |-> f.header_offset]
    ELSE [version |-> <<0, f.legacy>>, offset |-> LEGACY]

\* The loop over the extension headers, from position p: "ok" at the one that ends
\* the list.
ReadExtensions(exts, p, size, offset) ==
    LET read[i \in 0..Len(exts)] ==        \* behind i headers: the position, and how the loop ended
            IF i = 0 THEN [pos |-> p, ret |-> "TRUNCATED", more |-> TRUE]
            ELSE LET r == read[i - 1]
                     ends(ret) == [r EXCEPT !.ret = ret, !.more = FALSE]
                 IN IF ~r.more THEN r
                    ELSE IF r.pos + EXT > size THEN ends("TRUNCATED")
                    ELSE IF exts[i].type = "NONE" THEN ends("ok")
                    ELSE IF exts[i].next_offset < EXT \/ exts[i].next_offset > offset THEN ends("INVALID")
                    ELSE [r EXCEPT !.pos = @ + exts[i].next_offset]
    IN read[Len(exts)].ret

\* stream_file_open: the status and the position of the first packet.
stream_file_open(f) ==
    LET h == LoadHeader(f)
        ext == IF h.offset > PLAIN THEN ReadExtensions(f.exts, IF f.magic THEN HEADER ELSE LEGACY, f.size, h.offset)
               ELSE "ok"
        pos == h.offset + f.comment_size
    IN [ret |-> IF f = NoFile THEN "ENOENT"
                ELSE IF f.size < HEADER \/ (~f.magic /\ f.legacy \notin {5, 6}) THEN "INVALID"
                ELSE IF ext # "ok" THEN ext
                ELSE IF f.size < pos THEN "TRUNCATED"
                ELSE IF ~is_valid_version(h.version) THEN "EINVAL"
                ELSE "ok",
        pos |-> pos]

UINT16 == 65536    \* the values of a uint16_t

\* Mutant of stream_file_create: the comment is counted with its terminator.
CreateWithTerminator(comment) ==
    [size |-> HEADER + comment, magic |-> TRUE, legacy |-> 0, version |-> VERSION, header_offset |-> HEADER,
     comment_size |-> (comment + 1) % UINT16, exts |-> <<>>]

\* stream_file_create: the file with a comment of so many octets, whose number is kept in
\* 16 bits.
stream_file_create(comment) ==
    [size |-> HEADER + comment, magic |-> TRUE, legacy |-> 0, version |-> VERSION, header_offset |-> HEADER,
     comment_size |-> comment % UINT16, exts |-> <<>>]
=============================================================================
