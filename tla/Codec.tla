------------------------------- MODULE Codec -------------------------------
(***************************************************************************)
(* One message after the other is packed, travels, and is unpacked.        *)
(* ofl_msg_unpack runs step by step: header, fixed part, match, count of   *)
(* the entries, entries, the rest as data.  len counts the bytes that are  *)
(* left, as a size_t.  The decoders of matches and entries (ofl-structs)   *)
(* and the functions that count the entries (ofl-utils) are external and   *)
(* may refuse what they are given.                                         *)
(***************************************************************************)
EXTENDS ParseMsg

CONSTANTS
    SizeBits,       \* bound: width of size_t
    MatchLens,      \* bound: lengths of OXM fields
    DataLens,       \* bound: lengths of data
    MaxEntries,     \* bound: entries of a list, actions of a packet-out
    Actions,        \* actions: [kind, oxm, ipv4]
    CutLens         \* bound: lengths at which a message is cut off

ASSUME CodecAssumption ==
    /\ SizeBits \in Nat /\ 2^SizeBits \in Nat \ {0} /\ MaxEntries \in Nat
    /\ MatchLens \subseteq Nat /\ DataLens \subseteq Nat /\ CutLens \subseteq Nat
    /\ \A a \in Actions : a.kind \in ActionKinds /\ a.oxm \in Nat

VARIABLES
    pc,
    sent,       \* the message that was packed
    buf,        \* the buffer: as packed, then as delivered
    how,        \* how it was delivered: "whole", "part", "short", "more"
    len,        \* bytes left
    pos,        \* next entry
    out,        \* what has been decoded: [got, oxm, entries, data]
    heap,       \* what ofl_msg_unpack has allocated
    refused     \* an external function has refused well-formed input

vars == <<pc, sent, buf, how, len, pos, out, heap, refused>>
work == <<len, pos, out, heap, refused>>

Sub(x, y) == (x - y) % 2^SizeBits

-----------------------------------------------------------------------------
(* The messages                                                              *)
Msg(t) == [type |-> t, mp |-> "", match |-> 0, items |-> <<>>, acts |-> <<>>, data |-> 0,
           val |-> Plain]

Constant(size) == {[i \in 1..k |-> size] : k \in 0..MaxEntries}
Varying(size)  == UNION {[1..k -> {size, size + 8}] : k \in 0..MaxEntries}
WithItems(m, lists) == {[m EXCEPT !.items = l] : l \in lists}
WithVals(m, vals) == {[m EXCEPT !.val = v] : v \in vals}
Ports(f) == {f :> v : v \in {f, "zero", "OFPP_ANY", "OFPP_CONTROLLER"}}

Request(mp) == [Msg("MULTIPART_REQUEST") EXCEPT !.mp = mp]
Reply(mp)   == [Msg("MULTIPART_REPLY") EXCEPT !.mp = mp]

ListSizes ==
    {<<"FLOW", sizeof.ofp_flow_stats>>, <<"GROUP", sizeof.ofp_group_stats>>,
     <<"GROUP_DESC", sizeof.ofp_group_desc_stats>>, <<"METER", sizeof.ofp_meter_stats>>,
     <<"METER_CONFIG", sizeof.ofp_meter_config>>, <<"TABLE_FEATURES", sizeof.ofp_table_features>>}
FixedSizes ==
    {<<"TABLE", sizeof.ofp_table_stats>>, <<"PORT_STATS", sizeof.ofp_port_stats>>,
     <<"QUEUE", sizeof.ofp_queue_stats>>, <<"PORT_DESC", sizeof.ofp_port>>}

Bare ==
    {Msg(t) : t \in Empty \cup {"FEATURES_REPLY", "GET_CONFIG_REPLY", "SET_CONFIG", "PORT_STATUS",
                                "GET_ASYNC_REPLY", "SET_ASYNC", "PORT_MOD", "TABLE_MOD",
                                "ROLE_REQUEST", "ROLE_REPLY"}}
    \cup {[Msg("HELLO") EXCEPT !.val = [version |-> "other"]]}
WithData ==
    {[Msg(t) EXCEPT !.data = d] : t \in {"ERROR", "ECHO_REQUEST", "ECHO_REPLY"}, d \in DataLens}
PacketIn(l, d, v) == [Msg("PACKET_IN") EXCEPT !.match = l, !.data = d, !.val = v]
PacketIns ==
    {PacketIn(l, d, v) : l \in MatchLens, d \in DataLens, v \in {Plain, [table_id |-> "0xff"]}}
FlowRemoved(l, v) == [Msg("FLOW_REMOVED") EXCEPT !.match = l, !.val = v]
FlowRemoveds ==
    {FlowRemoved(l, v) : l \in MatchLens, v \in {Plain, [table_id |-> "0xff"]}}
PacketOut(a, d, v) == [Msg("PACKET_OUT") EXCEPT !.acts = a, !.data = d, !.val = [buffer_id |-> v]]
PacketOuts ==
    {PacketOut(a, d, v) :
        a \in UNION {[1..k -> Actions] : k \in 0..MaxEntries}, d \in DataLens,
        v \in {"buffer_id", "OFP_NO_BUFFER"}}
FlowMod(l) == [Msg("FLOW_MOD") EXCEPT !.match = l]
FlowMods ==
    UNION {WithItems(FlowMod(l), Varying(sizeof.ofp_instruction)) : l \in MatchLens}
GroupMod(v) == [Msg("GROUP_MOD") EXCEPT !.val = v]
GroupMods ==
    UNION {WithItems(GroupMod(v), Varying(sizeof.ofp_bucket)) :
        v \in [command : {"OFPGC_ADD", "OFPGC_DELETE", "unknown"},
               type : {"OFPGT_ALL", "OFPGT_INDIRECT", "unknown"},
               group_id : {"group_id", "OFPG_ALL", "OFPG_ANY"}]}
MeterMod(v) == [Msg("METER_MOD") EXCEPT !.val = v]
MeterMods ==
    UNION {WithItems(MeterMod(v), Constant(sizeof.ofp_meter_band)) :
        v \in [command : {"OFPMC_ADD", "OFPMC_DELETE", "unknown"},
               flags : {"flags", "unknown"},
               meter_id : {"meter_id", "OFPM_ALL", "OFPM_CONTROLLER"}]}
QueueConfigs ==
    WithVals(Msg("QUEUE_GET_CONFIG_REQUEST"), Ports("port"))
    \cup WithItems(Msg("QUEUE_GET_CONFIG_REPLY"), Varying(sizeof.ofp_packet_queue))
Requests ==
    {Request(mp) : mp \in {"DESC", "TABLE", "GROUP", "GROUP_DESC", "GROUP_FEATURES", "METER",
                           "METER_CONFIG", "METER_FEATURES", "PORT_DESC"}}
    \cup {[Request(mp) EXCEPT !.match = l] : mp \in {"FLOW", "AGGREGATE"}, l \in MatchLens}
    \cup WithVals(Request("PORT_STATS"), Ports("port_no"))
    \cup WithVals(Request("QUEUE"), Ports("port_no"))
    \cup WithItems(Request("TABLE_FEATURES"), Varying(sizeof.ofp_table_features))
ListReplies(s)  == WithItems(Reply(s[1]), Varying(s[2]))
FixedReplies(s) == WithItems(Reply(s[1]), Constant(s[2]))
Replies ==
    {Reply(mp) : mp \in {"DESC", "AGGREGATE", "GROUP_FEATURES", "METER_FEATURES"}}
    \cup WithVals(Reply("DESC"), {f :> "filling" : f \in DOMAIN ofp_desc})
    \cup (UNION {ListReplies(s) : s \in ListSizes})
    \cup (UNION {FixedReplies(s) : s \in FixedSizes})

Messages ==
    UNION {Bare, WithData, PacketIns, FlowRemoveds, PacketOuts, FlowMods, GroupMods, MeterMods,
           QueueConfigs, Requests, Replies}

-----------------------------------------------------------------------------
Nothing == [got |-> Plain, oxm |-> <<>>, entries |-> <<>>, data |-> <<>>]
NoMessage == Msg("")
NoBuffer == Alloc(0)

Init ==
    /\ pc = "idle" /\ sent = NoMessage /\ buf = NoBuffer /\ how = "whole"
    /\ len = 0 /\ pos = 0 /\ out = Nothing /\ heap = {} /\ refused = FALSE

Pack ==
    /\ pc = "idle"
    /\ \E m \in Messages : sent' = m /\ buf' = ofl_msg_pack(m)
    /\ pc' = "packed"
    /\ UNCHANGED <<how, work>>

\* the first n bytes of b, or b with more bytes behind it
Delivered(b, n) == [n |-> n, end |-> n,
                    at |-> [i \in 0..(n-1) |-> IF i < b.n THEN b.at[i] ELSE Junk]]
\* the same with a length field that says so
Announced(b, n) == Put(Delivered(b, n), ofp_header.length[1], hton(Num(n), 2))

\* the length of the message without match, entries, actions and data
BareLength(m) == Packed([m EXCEPT !.match = 0, !.items = <<>>, !.acts = <<>>, !.data = 0]).n

Arrive(kind, b) ==
    /\ pc = "packed"
    /\ how' = kind /\ buf' = b /\ len' = b.n
    /\ pc' = "header"
    /\ UNCHANGED <<sent, pos, out, heap, refused>>

\* All of it arrives; only the first part of it has been received so far; the
\* peer ended the structure too early; the peer put something behind a hello.
DeliverWhole == Arrive("whole", buf)
DeliverPart  == \E n \in (CutLens \cup {buf.n - 1}) \cap 0..(buf.n - 1) :
                    Arrive("part", Delivered(buf, n))
DeliverShort == \E n \in (CutLens \cup {BareLength(sent) - 1}) \cap 9..(BareLength(sent) - 1) :
                    Arrive("short", Announced(buf, n))
DeliverMore  == /\ sent.type = "HELLO"
                /\ \E d \in DataLens \ {0} : Arrive("more", Announced(buf, buf.n + d))

Rejected == pc' = "rejected"

ofl_msg_unpack_header ==
    /\ pc = "header"
    /\ IF \/ len < sizeof.ofp_header
          \/ NameOf(Bytes(buf, ofp_header.version[1], 1)) # "version"
       THEN Rejected /\ UNCHANGED out
       ELSE /\ out' = [out EXCEPT !.got = GetAll(buf, 0, [xid |-> ofp_header.xid], Plain)]
            /\ IF len # NumAt(buf, ofp_header.length[1]) THEN Rejected ELSE pc' = "fixed"
    /\ UNCHANGED <<sent, buf, how, len, pos, heap, refused>>

plan == Plan(buf)

\* Mutant: structures may be one byte short.
TooShortByMore == len + 1 < plan.need
TooShort == len < plan.need

\* where the entries of the list are counted first
Listed == IF plan.counts THEN "count" ELSE "entries"

ReadFixed ==
    /\ pc = "fixed"
    /\ IF TooShort \/ plan.invalid
       THEN Rejected /\ UNCHANGED work
       ELSE /\ len' = Sub(len, plan.take)
            /\ out' = [out EXCEPT !.got = plan.got @@ @]
            /\ heap' = heap \cup plan.allocs
            /\ pos' = plan.entries
            /\ pc' = IF plan.match # None THEN "match" ELSE Listed
            /\ UNCHANGED refused
    /\ UNCHANGED <<sent, buf, how>>

\* External: ofl_structs_match_unpack takes the padded length of the match
MatchAt == plan.match - 4
MatchLen == ROUND_UP(NumAt(buf, MatchAt + ofp_match.length[1]), 8)
ReadMatch ==
    /\ pc = "match" /\ MatchLen <= len
    /\ len' = Sub(len, MatchLen)
    /\ out' = [out EXCEPT !.oxm = Bytes(buf, plan.match, OxmLen(buf, MatchAt))]
    /\ heap' = heap \cup {"match"}
    /\ pc' = Listed
    /\ UNCHANGED <<sent, buf, how, pos, refused>>

RefuseMatch ==
    /\ pc = "match"
    /\ refused' = (MatchLen <= len)
    /\ IF "match" \in plan.ignores
       THEN pc' = "entries" /\ UNCHANGED heap
       ELSE Rejected /\ heap' = heap \ {"message", "stats"}
    /\ UNCHANGED <<sent, buf, how, len, pos, out>>

\* External: ofl_utils_count_ofp_* walks over the list.  The array for the
\* entries is allocated behind the count.
CountEntries ==
    /\ pc = "count" /\ ~plan.late
    /\ heap' = heap \cup {"array"}
    /\ pc' = "entries"
    /\ UNCHANGED <<sent, buf, how, len, pos, out, refused>>

\* The list cannot be counted, or the plan ends here with an error of its own.
RefuseCount ==
    /\ pc = "count"
    /\ refused' = ~plan.late
    /\ Rejected /\ heap' = heap \ plan.undoes
    /\ UNCHANGED <<sent, buf, how, len, pos, out>>

\* External: what is decoded at pos, and the length it takes
IsAction == sent.type = "PACKET_OUT"
EntryAt(p) ==
    LET v == Bytes(buf, p, 1)[1]
    IN  IF IsAction
        THEN [id |-> <<NameOf(Bytes(buf, p, 2)), Bytes(buf, p + 4, NumAt(buf, p + 2) - 4)>>,
              size |-> NumAt(buf, p + 2)]
        ELSE IF Len(v) = 4 /\ v[4] = 1 THEN [id |-> v[2], size |-> v[3]]
        ELSE [id |-> 0, size |-> 0]

MoreEntries == pc = "entries" /\ plan.entries # None /\ pos < plan.entries + plan.limit

WellFormed == EntryAt(pos).size \in 1..len
Step == IF plan.stride = None THEN EntryAt(pos).size ELSE plan.stride

ReadEntry ==
    /\ MoreEntries /\ WellFormed
    /\ len' = Sub(len, EntryAt(pos).size)
    /\ out' = [out EXCEPT !.entries = Append(@, EntryAt(pos).id)]
    /\ heap' = heap \cup {"entries"}
    /\ pos' = pos + Step
    /\ UNCHANGED <<pc, sent, buf, how, refused>>

\* A function that ignores the refusal goes on with the next entry, after
\* packet-out has already released everything.
RefuseEntry ==
    /\ MoreEntries
    /\ refused' = (refused \/ WellFormed)
    /\ IF "entry" \in plan.ignores
       THEN pos' = pos + Step /\ UNCHANGED pc
       ELSE Rejected /\ UNCHANGED pos
    /\ heap' = heap \ plan.frees
    /\ UNCHANGED <<sent, buf, how, len, out>>

ReadData ==
    /\ pc = "entries" /\ ~MoreEntries
    /\ IF plan.data = None THEN UNCHANGED <<len, out>>
       ELSE /\ out' = [out EXCEPT !.data = Bytes(buf, plan.data, Sub(len, plan.pad))]
            /\ len' = 0
    /\ pc' = "finish"
    /\ UNCHANGED <<sent, buf, how, pos, heap, refused>>

\* Mutant: bytes that are left over are an error.
AcceptStrictly == IF len = 0 THEN "accepted" ELSE "rejected"
\* Bytes that are left over are logged.
Accept == "accepted"

ofl_msg_unpack_finish ==
    /\ pc = "finish"
    /\ pc' = Accept
    /\ UNCHANGED <<sent, buf, how, work>>

NextMessage ==
    /\ pc \in {"accepted", "rejected"}
    /\ pc' = "idle" /\ sent' = NoMessage /\ buf' = NoBuffer /\ how' = "whole"
    /\ len' = 0 /\ pos' = 0 /\ out' = Nothing /\ heap' = {}
    /\ refused' = FALSE

Next == \/ Pack \/ DeliverWhole \/ DeliverPart \/ DeliverShort \/ DeliverMore
        \/ ofl_msg_unpack_header \/ ReadFixed \/ ReadMatch \/ RefuseMatch
        \/ CountEntries \/ RefuseCount \/ ReadEntry \/ RefuseEntry \/ ReadData
        \/ ofl_msg_unpack_finish \/ NextMessage

Spec == Init /\ [][Next]_vars

-----------------------------------------------------------------------------
(* Properties                                                                *)
Ended == pc \in {"accepted", "rejected"}
IsRequest(mps) == sent.type = "MULTIPART_REQUEST" /\ sent.mp \in mps
IsReply(mps)   == sent.type = "MULTIPART_REPLY" /\ sent.mp \in mps
HasSetField    == \E i \in DOMAIN sent.acts : sent.acts[i].kind = "SET_FIELD"
ValueOf(f)     == IF f \in DOMAIN sent.val THEN sent.val[f] ELSE f

\* Decoders whose length check is too weak: features-reply only logs (line 122),
\* packet-in forgets the padding (line 219), the queue configuration request
\* checks for another structure (line 1446).
WeakCheck == {"FEATURES_REPLY", "PACKET_IN", "QUEUE_GET_CONFIG_REQUEST"}

\* The types of the variables.  len is a size_t that never wraps around: no
\* decoder takes more than is left, but for those with a weak length check.
TypeOK ==
    /\ pc \in {"idle", "packed", "header", "fixed", "match", "entries", "finish",
               "count", "accepted", "rejected"}
    /\ how \in {"whole", "part", "short", "more"}
    /\ len \in 0..(2^SizeBits - 1)
    /\ ~(how = "short" /\ sent.type \in WeakCheck) => len <= buf.n /\ Len(out.data) <= buf.n
    /\ pos \in Int
    /\ heap \subseteq {"message", "first", "stats", "match", "array", "entries"}
    /\ refused \in BOOLEAN

\* The ofl_msg_pack functions compute the length of the buffer first and fill it
\* afterwards, in other expressions (cc_create_msg.c:147-168 for packet-in):
\* what they write fits into what they allocated.
PackFits == buf.end <= buf.n

\* Members that do not survive: flow-removed converts priority as 64 bits on
\* both sides and drops hard_timeout; packet-out's in_port is packed
\* (cc_create_msg.c:228) and not unpacked, and the value of a set-field action
\* lands on buffer_id; a text of the description that fills its array runs into
\* what follows (cc_parse_msg.c:963-967).
Lost == CASE sent.type = "FLOW_REMOVED" -> {"priority", "hard_timeout"}
          [] sent.type = "PACKET_OUT"   ->
                {"in_port"} \cup (IF HasSetField THEN {"buffer_id"} ELSE {})
          [] IsReply({"DESC"})          -> {f \in DOMAIN ofp_desc : Fills(sent, f)}
          [] OTHER                      -> {}

\* The values in the packed message, without those that make up its layout
Layout == {"version", sent.type, sent.mp, "lo", "hi", "0", "?", "oxm", "data", "entry",
           "argument", "field", "value"} \cup ActionKinds
Written == {buf.at[i][1] : i \in DOMAIN buf.at} \ Layout

\* What ofl_msg_unpack stores in a member is the value that ofl_msg_pack was
\* given, and no value that was packed is left out: both use the same offset,
\* width and byte order.
MembersRoundTrip ==
    pc = "accepted" /\ how = "whole" =>
        /\ \A f \in DOMAIN out.got \ Lost : out.got[f] = Value(ValueOf(f), Len(out.got[f]))
        /\ \A v \in Written \ {ValueOf(f) : f \in Lost} :
              \E f \in DOMAIN out.got \ Lost : ValueOf(f) = v
        /\ IsReply({"DESC"}) =>
              \A f \in DOMAIN ofp_desc \ Lost : Len(out.got[f]) = ofp_desc[f][2] - 1

\* An action behind its type and length.  Of a set-field only the header of its
\* field arrives; where "exactly oxm_len bytes containing a single OXM TLV"
\* should end (cc_openflow_13.c:538) there is what malloc left, since the packer
\* writes the value to the start of the message (cc_create_msg.c:235).
Argument(a) ==
    IF a.kind = "SET_FIELD"
    THEN Value("field", 4) \o [k \in 1..(ofl_actions_ofp_len(a) - 8) |-> Junk]
    ELSE Value("argument", ofl_actions_ofp_len(a) - 4)

\* The same for what has no fixed place: the OXM fields, the entries, each once
\* and in order, and the data behind them.
BodyRoundTrip ==
    (pc = "accepted" /\ how = "whole" /\ ~refused /\ ~IsRequest({"FLOW", "AGGREGATE"})) =>
        /\ out.oxm = Oxm(sent.match)
        /\ out.data = Data(sent.data)
        /\ IF sent.type = "PACKET_OUT"
           THEN out.entries = [i \in DOMAIN sent.acts |->
                                  <<sent.acts[i].kind, Argument(sent.acts[i])>>]
           ELSE out.entries = [i \in 1..(IF sent.type = "PORT_STATUS" THEN 1 ELSE Len(sent.items))
                                 |-> i]

\* What is unpacked is what was packed: members, match, entries, actions and data.
RoundTrip == MembersRoundTrip /\ BodyRoundTrip

\* What the protocol allows in a message that this library both packs and
\* unpacks
Proper ==
    /\ ValueOf("version") = "version"
    /\ \A f \in DOMAIN sent.val : sent.val[f] \notin {"unknown", "zero", "0xff", "OFPP_CONTROLLER",
                                                    "OFPG_ANY", "OFPM_CONTROLLER"}
    /\ ValueOf("group_id") = "OFPG_ALL" => ValueOf("command") = "OFPGC_DELETE"
    /\ ValueOf("meter_id") = "OFPM_ALL" => ValueOf("command") = "OFPMC_DELETE"
    /\ ValueOf("command") = "OFPGC_DELETE" => sent.items = <<>>
    /\ ValueOf("type") = "OFPGT_INDIRECT" => Len(sent.items) = 1
    /\ sent.data > 0 => ValueOf("buffer_id") = "OFP_NO_BUFFER" \/ sent.type # "PACKET_OUT"
    /\ ValueOf("port") # "OFPP_ANY"
    /\ ~HasSetField
    /\ ~IsRequest({"METER_FEATURES"}) /\ ~IsReply({"METER_FEATURES"})
    /\ ~(IsRequest({"FLOW", "AGGREGATE"}) /\ sent.match > 0)

\* A proper message that arrives whole is understood to its last byte, unless
\* the decoder of a part refuses it: the lengths that packing writes are the
\* lengths that unpacking takes off, and len never wraps, but for those with a
\* weak length check.
\* Of a hello, "implementations must ignore any data included in the body"
\* (cc_openflow_13.c:96-97).
ProperUnderstood ==
    /\ TypeOK
    /\ Ended /\ how = "whole" /\ ~refused /\ Proper => pc = "accepted" /\ len = 0
    /\ how = "more" /\ Ended /\ ValueOf("version") = "version" => pc = "accepted"

\* The match of these messages starts at byte 48.
HasMatch(m) == \/ m.type \in {"FLOW_REMOVED", "FLOW_MOD"}
               \/ m.type = "MULTIPART_REQUEST" /\ m.mp \in {"FLOW", "AGGREGATE"}

\* The lengths that no check refuses although the structure is longer: those of
\* the weak checks, and those that end inside the header of a match, which the
\* checks at lines 275, 434 and 689 leave out.
Unchecked(m, n) ==
    \/ m.type \in {"FEATURES_REPLY", "QUEUE_GET_CONFIG_REQUEST"}
    \/ m.type = "PACKET_IN" /\ n \in 32..33
    \/ HasMatch(m) /\ n \in 48..51

\* A message that is still incomplete, or that ends inside its structure, is
\* never taken for a message (cc_parse_msg.c:1544 and the length checks of the
\* functions), but for the lengths above.
ShortRejected ==
    /\ how = "part" => pc # "accepted"
    /\ how = "short" /\ pc = "accepted" => Unchecked(sent, buf.n)

\* Whatever a function allocated is released when it returns an error, at each
\* of its error exits: before the allocation, behind it, after the match, after
\* the count and inside the list.  Port and queue statistics lose the block that they
\* allocate first (cc_parse_msg.c:1072 and 1106).
NoLeak ==
    pc = "rejected" => heap \subseteq IF IsReply({"PORT_STATS", "QUEUE"}) THEN {"first"} ELSE {}

\* "At this point the whole message must be consumed, and len should equal to
\* zero" (cc_parse_msg.c:1668-1670), for a message from the own packer.
WholeConsumed == pc = "accepted" /\ how = "whole" /\ ~refused => len = 0
=============================================================================
