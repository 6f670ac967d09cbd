------------------------------ MODULE ParseMsg ------------------------------
(***************************************************************************)
(* Unpacking: src/cc_parse_msg.c.  Each ofl_msg_unpack function is a plan, *)
(* which module Codec carries out step by step on the buffer b:            *)
(*   need, take   the length it asks for and the length it takes off len   *)
(*   got          the members it reads                                     *)
(*   invalid      whether a value makes it return an error                 *)
(*   late         the same once it has allocated the message               *)
(*   allocs       what it allocates, besides the match and the entries     *)
(*   match        where it reads the OXM fields (None: no match)           *)
(*   entries      where the entries of its list start, up to limit         *)
(*   counts       whether it counts the entries first                      *)
(*   undoes       what it releases when the count or late is an error      *)
(*   stride       the distance to the next entry (None: the entry's length)*)
(*   pad, data    padding it skips; where it copies the rest from          *)
(*   ignores      results of calls that it does not look at                *)
(*   frees        what it releases when an entry is refused                *)
(***************************************************************************)
EXTENDS CreateMsg

None == -1

Bytes(b, offset, n) ==
    [k \in 1..n |-> IF offset + k - 1 \in DOMAIN b.at THEN b.at[offset + k - 1] ELSE Junk]

\* read the members of structure s that lies at base
GetAll(b, base, s, odd) ==
    [f \in DOMAIN s |->
        Resized(hton(Bytes(b, base + s[f][1], s[f][2]), Width(s, odd, f)), s[f][2])]

\* the name of a value that arrived in one piece
NameOf(v) == IF v = Value(v[1][1], Len(v)) THEN v[1][1] ELSE "?"

NumAt(b, offset) == LET v == hton(Bytes(b, offset, 2), 2)
                    IN  IF v[1][1] = "lo" THEN v[1][2] ELSE 0

\* the length of the OXM fields of the match at this offset
OxmLen(b, match) == NumAt(b, match + ofp_match.length[1]) - 4

Reads(need, take, got) ==
    [need |-> need, take |-> take, got |-> got, invalid |-> FALSE, late |-> FALSE,
     allocs |-> {"message"}, match |-> None, entries |-> None, limit |-> 0, stride |-> None,
     counts |-> FALSE, undoes |-> {"message"}, pad |-> 0, data |-> None,
     ignores |-> {}, frees |-> {"message", "match", "array", "entries"}]

-----------------------------------------------------------------------------
ofl_msg_unpack_error(b) ==
    [Reads(sizeof.ofp_error_msg, sizeof.ofp_error_msg, GetAll(b, 0, ofp_error_msg, Plain))
        EXCEPT !.data = sizeof.ofp_error_msg]
ofl_msg_unpack_echo(b) ==
    [Reads(0, sizeof.ofp_header, Plain) EXCEPT !.data = sizeof.ofp_header]

\* Mutant: the identifier is converted as a 32-bit value.
role_request_narrow(b) ==
    Reads(sizeof.ofp_role_request, sizeof.ofp_role_request,
          GetAll(b, 0, ofp_role_request, [generation_id |-> 4]))
ofl_msg_unpack_role_request(b) ==
    Reads(sizeof.ofp_role_request, sizeof.ofp_role_request,
          GetAll(b, 0, ofp_role_request, Plain))
\* a short message is logged and decoded all the same
ofl_msg_unpack_features_reply(b) ==
    Reads(0, sizeof.ofp_switch_features, GetAll(b, 0, ofp_switch_features, Plain))
ofl_msg_unpack_get_config_reply(b) ==
    Reads(sizeof.ofp_switch_config, sizeof.ofp_switch_config,
          GetAll(b, 0, ofp_switch_config, Plain))
ofl_msg_unpack_set_config(b) ==
    Reads(sizeof.ofp_switch_config, sizeof.ofp_switch_config,
          GetAll(b, 0, ofp_switch_config, Plain))
ofl_msg_unpack_async_config(b) ==
    Reads(sizeof.ofp_async_config, sizeof.ofp_async_config,
          GetAll(b, 0, ofp_async_config, HostOrder))

\* the result of unpacking the match is not looked at
ofl_msg_unpack_packet_in(b) ==
    LET got == GetAll(b, 0, ofp_packet_in, Plain)
        fixed == sizeof.ofp_packet_in - sizeof.ofp_match
    IN  [Reads(sizeof.ofp_packet_in, fixed, got) EXCEPT
            !.invalid = NameOf(got.table_id) = "0xff",
            !.match = sizeof.ofp_packet_in - 4,
            !.pad = 2,
            !.data = ROUND_UP(sizeof.ofp_packet_in - 4 + OxmLen(b, fixed), 8) + 2,
            !.ignores = {"match"}]

\* priority is converted as a 64-bit value; hard_timeout is set to 0
ofl_msg_unpack_flow_removed(b) ==
    LET got == GetAll(b, 0, Without(ofp_flow_removed, {"hard_timeout"}), [priority |-> 8])
        fixed == sizeof.ofp_flow_removed - sizeof.ofp_match
    IN  [Reads(fixed, fixed, got @@ [hard_timeout |-> <<Zero, Zero>>]) EXCEPT
            !.invalid = NameOf(got.table_id) = "0xff",
            !.allocs = {"message", "stats"}, !.frees = {"message", "stats"},
            !.match = sizeof.ofp_flow_removed - 4]

ofl_msg_unpack_port_status(b) ==
    [Reads(sizeof.ofp_port_status, sizeof.ofp_port_status - sizeof.ofp_port,
           GetAll(b, 0, ofp_port_status, Plain))
        EXCEPT !.entries = 16, !.limit = sizeof.ofp_port, !.stride = sizeof.ofp_port]

\* in_port is not read.  A refused action releases the message and goes on.
ofl_msg_unpack_packet_out(b) ==
    LET got == GetAll(b, 0, Without(ofp_packet_out, {"in_port", "actions_len"}), Plain)
        actions_len == NumAt(b, ofp_packet_out.actions_len[1])
    IN  [Reads(sizeof.ofp_packet_out, sizeof.ofp_packet_out, got) EXCEPT
            !.invalid = /\ NameOf(got.buffer_id) # "OFP_NO_BUFFER"
                        /\ b.n # sizeof.ofp_packet_out + actions_len,
            !.late = b.n - sizeof.ofp_packet_out < actions_len,
            !.entries = sizeof.ofp_packet_out, !.limit = actions_len, !.counts = TRUE,
            !.data = sizeof.ofp_packet_out + actions_len,
            !.ignores = {"entry"}]

\* Mutant: the match is forgotten when the instructions cannot be counted.
UndoesNoMatch == {"message"}
FlowModUndoes == {"message", "match"}
\* Mutant: the match is forgotten when an instruction is refused.
FreesNoMatch == {"message", "array", "entries"}
FlowModFrees == {"message", "match", "array", "entries"}
ofl_msg_unpack_flow_mod(b) ==
    LET fixed == sizeof.ofp_flow_mod - sizeof.ofp_match
        match_pos == sizeof.ofp_flow_mod - 4
        at == ROUND_UP(match_pos + OxmLen(b, fixed), 8)
    IN  [Reads(fixed, fixed, GetAll(b, 0, ofp_flow_mod, Plain)) EXCEPT
            !.match = match_pos, !.entries = at, !.limit = b.n - at, !.counts = TRUE,
            !.undoes = FlowModUndoes, !.frees = FlowModFrees]

\* number of entries, by their lengths (external, ofl-utils)
EntriesIn(b, at, limit) ==
    {o \in at..(at + limit - 1) :
        Len(Bytes(b, o, 1)[1]) = 4 /\ Bytes(b, o, 1)[1][4] = 1}

\* ntohs is applied to a member of 8 bits: the value is in the upper byte
Between4And127(v) == v[1] = <<"unknown", 1>> /\ v[2] = Zero
ofl_msg_unpack_group_mod(b) ==
    LET got == GetAll(b, 0, ofp_group_mod, Plain)
        command == NameOf(got.command)
        group_id == NameOf(got.group_id)
        buckets == Cardinality(EntriesIn(b, sizeof.ofp_group_mod, b.n - sizeof.ofp_group_mod))
    IN  [Reads(sizeof.ofp_group_mod, sizeof.ofp_group_mod, got) EXCEPT
            !.invalid =
                \/ command = "unknown"
                \/ Between4And127(hton(Bytes(b, ofp_group_mod.type[1], 1), 2))
                \/ group_id \in {"OFPG_ALL", "OFPG_ANY"}
                   /\ ~(command = "OFPGC_DELETE" /\ group_id = "OFPG_ALL"),
            !.late =
                \/ command = "OFPGC_DELETE" /\ buckets > 0
                \/ NameOf(got.type) = "OFPGT_INDIRECT" /\ buckets # 1,
            !.entries = sizeof.ofp_group_mod, !.limit = b.n - sizeof.ofp_group_mod,
            !.counts = TRUE]

ofl_msg_unpack_meter_mod(b) ==
    LET got == GetAll(b, 0, ofp_meter_mod, Plain)
        meter_id == NameOf(got.meter_id)
    IN  [Reads(sizeof.ofp_meter_mod, sizeof.ofp_meter_mod, got) EXCEPT
            !.invalid =
                \/ NameOf(got.command) = "unknown"
                \/ NameOf(got.flags) = "unknown"
                \/ meter_id \in {"OFPM_ALL", "OFPM_CONTROLLER"}
                   /\ ~(NameOf(got.command) = "OFPMC_DELETE" /\ meter_id = "OFPM_ALL"),
            !.entries = sizeof.ofp_meter_mod, !.limit = b.n - sizeof.ofp_meter_mod,
            !.counts = TRUE]

ofl_msg_unpack_port_mod(b) ==
    Reads(sizeof.ofp_port_mod, sizeof.ofp_port_mod, GetAll(b, 0, ofp_port_mod, [hw_addr |-> 0]))
ofl_msg_unpack_table_mod(b) ==
    Reads(sizeof.ofp_table_mod, sizeof.ofp_table_mod, GetAll(b, 0, ofp_table_mod, Plain))

\* the length it asks for is that of another structure
ofl_msg_unpack_queue_get_config_request(b) ==
    LET got == GetAll(b, 0, ofp_queue_get_config, Plain)
    IN  [Reads(sizeof.ofp_group_desc_stats, sizeof.ofp_queue_get_config, got) EXCEPT
            !.invalid = NameOf(got.port) \in {"zero", "OFPP_ANY", "OFPP_CONTROLLER"}]
ofl_msg_unpack_queue_get_config_reply(b) ==
    [Reads(sizeof.ofp_queue_get_config, sizeof.ofp_queue_get_config,
           GetAll(b, 0, ofp_queue_get_config, Plain))
        EXCEPT !.entries = sizeof.ofp_queue_get_config, !.limit = b.n - sizeof.ofp_queue_get_config,
               !.counts = TRUE]
ofl_msg_unpack_empty(b) == Reads(0, sizeof.ofp_header, Plain)

-----------------------------------------------------------------------------
(* Multipart messages: the body is read behind the common part.              *)
\* a body of one structure
GetBody(b, size, s) == Reads(Body + size, Body + size, GetAll(b, Body, s, Plain))
\* a body that is a list
GetList(b, stride) ==
    [Reads(Body, Body, Plain) EXCEPT !.entries = Body, !.limit = b.n - Body, !.stride = stride,
                              !.counts = TRUE]

ofl_msg_unpack_multipart_request_flow(b) ==
    LET fixed == Body + sizeof.ofp_flow_stats_request - sizeof.ofp_match
    IN  [Reads(fixed, fixed, GetAll(b, Body, ofp_flow_stats_request, Plain)) EXCEPT
            !.match = Body + sizeof.ofp_flow_stats_request - 4]
BadPort(v) == NameOf(v) \in {"zero", "OFPP_CONTROLLER"}    \* 0, or large and not OFPP_ANY
ofl_msg_unpack_multipart_request_port(b) ==
    LET p == GetBody(b, sizeof.ofp_port_stats_request, ofp_port_stats_request)
    IN  [p EXCEPT !.invalid = BadPort(p.got.port_no)]
ofl_msg_unpack_multipart_request_empty(b) == Reads(Body, Body, Plain)
\* an empty list is not counted
ofl_msg_unpack_multipart_request_table_features(b) ==
    [GetList(b, None) EXCEPT !.counts = b.n > Body, !.ignores = {"entry"}, !.frees = {}]
ofl_msg_unpack_multipart_request_queue(b) ==
    LET p == GetBody(b, sizeof.ofp_queue_stats_request, ofp_queue_stats_request)
    IN  [p EXCEPT !.invalid = BadPort(p.got.port_no)]
ofl_msg_unpack_multipart_request_group(b) ==
    GetBody(b, sizeof.ofp_group_stats_request, ofp_group_stats_request)
ofl_msg_unpack_meter_multipart_request(b) ==
    GetBody(b, sizeof.ofp_meter_multipart_request, ofp_meter_multipart_request)

\* type and flags are stored behind the body; a type without a case is an error
WithMultipart(b, p) ==
    [p EXCEPT !.got = GetAll(b, 0, Without(ofp_multipart, {"mp"}), Plain) @@ p.got]
MpOf(b) == NameOf(GetAll(b, 0, ofp_multipart, Plain).mp)
ofl_msg_unpack_multipart_request(b) ==
    LET mp == MpOf(b)
    IN  WithMultipart(b,
          CASE mp \in {"DESC", "TABLE", "GROUP_DESC", "GROUP_FEATURES", "PORT_DESC"} ->
                    ofl_msg_unpack_multipart_request_empty(b)
            [] mp \in {"FLOW", "AGGREGATE"}     -> ofl_msg_unpack_multipart_request_flow(b)
            [] mp = "TABLE_FEATURES" -> ofl_msg_unpack_multipart_request_table_features(b)
            [] mp = "PORT_STATS"                -> ofl_msg_unpack_multipart_request_port(b)
            [] mp = "QUEUE"                     -> ofl_msg_unpack_multipart_request_queue(b)
            [] mp = "GROUP"                     -> ofl_msg_unpack_multipart_request_group(b)
            [] mp \in {"METER", "METER_CONFIG"} -> ofl_msg_unpack_meter_multipart_request(b)
            [] OTHER -> [Reads(Body, Body, Plain) EXCEPT !.invalid = TRUE])

\* strcpy: the text at this offset, up to the first zero; beyond the message
\* there is no telling
Text(b, offset) ==
    LET ends == {i \in DOMAIN b.at : i >= offset /\ b.at[i] = Zero}
    IN  IF ends = {} THEN Append(Bytes(b, offset, b.n - offset), Junk)
        ELSE Bytes(b, offset, Min(ends) - offset)
ofl_msg_unpack_reply_desc(b) ==
    Reads(Body + sizeof.ofp_desc, Body + sizeof.ofp_desc,
          [f \in DOMAIN ofp_desc |-> Text(b, Body + ofp_desc[f][1])])
ofl_msg_unpack_multipart_reply_flow(b) == GetList(b, None)
ofl_msg_unpack_multipart_reply_aggregate(b) ==
    GetBody(b, sizeof.ofp_aggregate_stats_reply, ofp_aggregate_stats_reply)

\* Mutant: the size of another structure.
table_stats_stride == sizeof.ofp_group_stats
TableStride == sizeof.ofp_table_stats
ofl_msg_unpack_multipart_reply_table(b) == GetList(b, TableStride)
\* the message is allocated twice, and the first one is lost
ofl_msg_unpack_multipart_reply_port(b) ==
    [GetList(b, sizeof.ofp_port_stats) EXCEPT !.allocs = {"first", "message"}]
ofl_msg_unpack_multipart_reply_queue(b) ==
    [GetList(b, sizeof.ofp_queue_stats) EXCEPT !.allocs = {"first", "message"}]
ofl_msg_unpack_multipart_reply_group(b) == GetList(b, None)
ofl_msg_unpack_multipart_reply_group_desc(b) == GetList(b, None)
ofl_msg_unpack_multipart_reply_group_features(b) ==
    GetBody(b, sizeof.ofp_group_features_stats, ofp_group_features_stats)
ofl_msg_unpack_multipart_reply_table_features(b) ==
    [GetList(b, None) EXCEPT !.ignores = {"entry"}, !.frees = {}]
ofl_msg_unpack_multipart_reply_meter_stats(b) == GetList(b, None)
ofl_msg_unpack_multipart_reply_meter_config(b) == GetList(b, None)
ofl_msg_unpack_multipart_reply_port_desc(b) == GetList(b, sizeof.ofp_port)

ofl_msg_unpack_multipart_reply(b) ==
    LET mp == MpOf(b)
    IN  WithMultipart(b,
          CASE mp = "DESC"           -> ofl_msg_unpack_reply_desc(b)
            [] mp = "FLOW"           -> ofl_msg_unpack_multipart_reply_flow(b)
            [] mp = "AGGREGATE"      -> ofl_msg_unpack_multipart_reply_aggregate(b)
            [] mp = "TABLE"          -> ofl_msg_unpack_multipart_reply_table(b)
            [] mp = "TABLE_FEATURES" -> ofl_msg_unpack_multipart_reply_table_features(b)
            [] mp = "PORT_STATS"     -> ofl_msg_unpack_multipart_reply_port(b)
            [] mp = "QUEUE"          -> ofl_msg_unpack_multipart_reply_queue(b)
            [] mp = "GROUP"          -> ofl_msg_unpack_multipart_reply_group(b)
            [] mp = "GROUP_DESC"     -> ofl_msg_unpack_multipart_reply_group_desc(b)
            [] mp = "GROUP_FEATURES" -> ofl_msg_unpack_multipart_reply_group_features(b)
            [] mp = "METER"          -> ofl_msg_unpack_multipart_reply_meter_stats(b)
            [] mp = "METER_CONFIG"   -> ofl_msg_unpack_multipart_reply_meter_config(b)
            [] mp = "PORT_DESC"      -> ofl_msg_unpack_multipart_reply_port_desc(b)
            [] OTHER -> [Reads(Body, Body, Plain) EXCEPT !.invalid = TRUE])

-----------------------------------------------------------------------------
Empty == {"HELLO", "FEATURES_REQUEST", "GET_CONFIG_REQUEST", "GET_ASYNC_REQUEST",
          "BARRIER_REQUEST", "BARRIER_REPLY"}

\* the switch of ofl_msg_unpack
Plan(b) ==
    LET type == NameOf(Bytes(b, ofp_header.type[1], 1))
    IN  CASE type \in Empty                          -> ofl_msg_unpack_empty(b)
          [] type = "ERROR"                          -> ofl_msg_unpack_error(b)
          [] type \in {"ECHO_REQUEST", "ECHO_REPLY"} -> ofl_msg_unpack_echo(b)
          [] type = "FEATURES_REPLY"                 -> ofl_msg_unpack_features_reply(b)
          [] type = "GET_CONFIG_REPLY"               -> ofl_msg_unpack_get_config_reply(b)
          [] type = "SET_CONFIG"                     -> ofl_msg_unpack_set_config(b)
          [] type = "PACKET_IN"                      -> ofl_msg_unpack_packet_in(b)
          [] type = "FLOW_REMOVED"                   -> ofl_msg_unpack_flow_removed(b)
          [] type = "PORT_STATUS"                    -> ofl_msg_unpack_port_status(b)
          [] type \in {"GET_ASYNC_REPLY", "SET_ASYNC"} -> ofl_msg_unpack_async_config(b)
          [] type = "PACKET_OUT"                     -> ofl_msg_unpack_packet_out(b)
          [] type = "FLOW_MOD"                       -> ofl_msg_unpack_flow_mod(b)
          [] type = "GROUP_MOD"                      -> ofl_msg_unpack_group_mod(b)
          [] type = "PORT_MOD"                       -> ofl_msg_unpack_port_mod(b)
          [] type = "TABLE_MOD"                      -> ofl_msg_unpack_table_mod(b)
          [] type = "METER_MOD"                      -> ofl_msg_unpack_meter_mod(b)
          [] type = "MULTIPART_REQUEST"              -> ofl_msg_unpack_multipart_request(b)
          [] type = "MULTIPART_REPLY"                -> ofl_msg_unpack_multipart_reply(b)
          [] type \in {"ROLE_REQUEST", "ROLE_REPLY"} -> ofl_msg_unpack_role_request(b)
          [] type = "QUEUE_GET_CONFIG_REQUEST" -> ofl_msg_unpack_queue_get_config_request(b)
          [] type = "QUEUE_GET_CONFIG_REPLY"   -> ofl_msg_unpack_queue_get_config_reply(b)
          [] OTHER -> [Reads(0, 0, Plain) EXCEPT !.invalid = TRUE]
=============================================================================
