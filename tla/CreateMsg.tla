----------------------------- MODULE CreateMsg -----------------------------
(***************************************************************************)
(* Packing: src/cc_create_msg.c and src/cc_action.c.  Each ofl_msg_pack    *)
(* function allocates the buffer and writes the members of its structure,  *)
(* the match, the entries of a list, the actions and the data.             *)
(*                                                                         *)
(* A message is a record: type; mp, the multipart type; match, the length  *)
(* of its OXM fields; items, the lengths of the entries of its list; acts, *)
(* its actions; data, the length of its data; val, names for the values of *)
(* the members that are not named after themselves.                        *)
(***************************************************************************)
EXTENDS OpenFlow

\* *buf = malloc(n).  end: one past the last byte written
Alloc(n) == [n |-> n, at |-> [i \in 0..(n-1) |-> Junk], end |-> 0]

Put(b, offset, v) ==
    [n   |-> b.n,
     at  |-> [i \in DOMAIN b.at |->
                IF (i - offset + 1) \in DOMAIN v THEN v[i - offset + 1] ELSE b.at[i]],
     end |-> IF v = <<>> THEN b.end ELSE Max({b.end, offset + Len(v)})]

\* the value of a member in the host
Member(m, f, width) == Value(IF f \in DOMAIN m.val THEN m.val[f] ELSE f, width)

\* m with a value for the member f
Given(m, f, v) == [m EXCEPT !.val = [g \in {f} \cup DOMAIN m.val |->
                                       IF g = f THEN v ELSE m.val[g]]]

\* how a member is converted: by its own width unless odd says otherwise
Width(s, odd, f) == IF f \in DOMAIN odd THEN odd[f] ELSE s[f][2]

\* the bytes of member f of structure s that lies at base
Place(base, s, f) == (base + s[f][1])..(base + s[f][1] + s[f][2] - 1)

\* assign the members of the structure, which do not overlap
PutAll(b, m, base, s, odd) ==
    LET v == [f \in DOMAIN s |->
                Resized(hton(Member(m, f, s[f][2]), Width(s, odd, f)), s[f][2])]
        Of(i) == {f \in DOMAIN s : i \in Place(base, s, f)}
        First(i) == CHOOSE f \in Of(i) : TRUE
    IN  [n   |-> b.n,
         at  |-> [i \in DOMAIN b.at |-> IF Of(i) = {} THEN b.at[i]
                                       ELSE v[First(i)][i - base - s[First(i)][1] + 1]],
         end |-> Max({b.end} \cup {base + s[f][1] + s[f][2] : f \in DOMAIN s})]

Plain == [f \in {} |-> 0]
Without(s, F) == [f \in DOMAIN s \ F |-> s[f]]

Data(n) == Value("data", n)
Oxm(n)  == Value("oxm", n)

\* External (ofl-structs).  The header of the match goes to its place in the
\* structure, the OXM fields to ptr.
ofl_structs_match_pack(b, match, n, ptr) ==
    Put(Put(b, match + 2, hton(Num(n + 4), 2)), ptr, Oxm(n))

\* External (ofl-structs).  An entry of a list, of the given length
Entry(i, n) == [k \in 1..n |-> <<"entry", i, n, k>>]

\* the sums of the first k lengths
Sums(lengths) == LET sum[k \in 0..Len(lengths)] == IF k = 0 THEN 0 ELSE sum[k-1] + lengths[k]
                 IN  sum
Total(lengths) == Sums(lengths)[Len(lengths)]

PutEntries(b, m, offset) ==
    LET put[k \in 0..Len(m.items)] ==
            IF k = 0 THEN b
            ELSE Put(put[k-1], offset + Sums(m.items)[k-1], Entry(k, m.items[k]))
    IN  put[Len(m.items)]

-----------------------------------------------------------------------------
(* Actions: [kind, oxm, ipv4]                                                *)
HeaderSized == {"COPY_TTL_OUT", "COPY_TTL_IN", "SET_MPLS_TTL", "DEC_MPLS_TTL", "PUSH_VLAN",
                "PUSH_PBB", "PUSH_MPLS", "POP_VLAN", "POP_PBB", "POP_MPLS", "SET_QUEUE",
                "GROUP", "SET_NW_TTL", "DEC_NW_TTL"}

\* the actions that are packed here; an experimenter brings its own functions
ActionKinds == HeaderSized \cup {"OUTPUT", "SET_FIELD"}

ofl_actions_ofp_len(a) ==
    CASE a.kind = "OUTPUT"       -> sizeof.ofp_action_output
      [] a.kind = "SET_FIELD"    -> sizeof.ofp_action_set_field + ROUND_UP(a.oxm, 8)
      [] a.kind \in HeaderSized  -> sizeof.ofp_action_header
      [] OTHER                   -> 0

ActionLens(acts) == [i \in DOMAIN acts |-> ofl_actions_ofp_len(acts[i])]
ofl_actions_ofp_total_len(acts) == Total(ActionLens(acts))

\* The value of a set-field action as it is written: 1, 6 and 16 bytes and the
\* IPv4 addresses as they are; htons for 8 bytes
SetFieldValue(a) ==
    LET v == Value("value", a.oxm)
    IN  CASE a.oxm \in {1, 6, 16} -> v
          [] a.oxm = 2            -> hton(v, 2)
          [] a.oxm = 4            -> IF a.ipv4 THEN v ELSE hton(v, 4)
          [] a.oxm = 8            -> Resized(hton(v, 2), 8)
          [] OTHER                -> <<>>

\* One action at ptr; the value of a set-field action goes to data + 8.
ofl_actions_pack(b, a, ptr, data) ==
    LET c == Put(Put(b, ptr, Value(a.kind, 2)), ptr + 2, hton(Num(ofl_actions_ofp_len(a)), 2))
    IN  IF a.kind # "SET_FIELD"
        THEN Put(c, ptr + 4, Value("argument", ofl_actions_ofp_len(a) - 4))
        ELSE Put(Put(Put(c, ptr + 4, Value("field", 4)),
                     data + sizeof.ofp_action_set_field, SetFieldValue(a)),
                 data + sizeof.ofp_action_set_field + a.oxm,
                 [k \in 1..(ROUND_UP(a.oxm, 8) - a.oxm) |-> Zero])

PutActions(b, acts, ptr, data) ==
    LET put[k \in 0..Len(acts)] ==
            IF k = 0 THEN b
            ELSE ofl_actions_pack(put[k-1], acts[k], ptr + Sums(ActionLens(acts))[k-1], data)
    IN  put[Len(acts)]

-----------------------------------------------------------------------------
(* Messages                                                                  *)
ofl_msg_pack_error(m) ==
    Put(PutAll(Alloc(sizeof.ofp_error_msg + m.data), m, 0, ofp_error_msg, Plain),
        sizeof.ofp_error_msg, Data(m.data))
ofl_msg_pack_echo(m) == Put(Alloc(sizeof.ofp_header + m.data), sizeof.ofp_header, Data(m.data))
ofl_msg_pack_role_request(m) ==
    PutAll(Alloc(sizeof.ofp_role_request), m, 0, ofp_role_request, Plain)
ofl_msg_pack_features_reply(m) ==
    PutAll(Alloc(sizeof.ofp_switch_features), m, 0, ofp_switch_features, Plain)
ofl_msg_pack_get_config_reply(m) ==
    PutAll(Alloc(sizeof.ofp_switch_config), m, 0, ofp_switch_config, Plain)
ofl_msg_pack_set_config(m) ==
    PutAll(Alloc(sizeof.ofp_switch_config), m, 0, ofp_switch_config, Plain)

\* Mutant: the frame is not aligned.
FrameAtUnaligned(m) == sizeof.ofp_packet_in - 4 + m.match
\* where the padding in front of the frame starts
FrameAt(m) == ROUND_UP((sizeof.ofp_packet_in - 4) + m.match, 8)
\* Mutant: the two bytes of padding are not allocated.
PacketInLenUnpadded(m) == sizeof.ofp_packet_in + ROUND_UP(m.match - 4, 8) + m.data
PacketInLen(m) == sizeof.ofp_packet_in + ROUND_UP(m.match - 4, 8) + m.data + 2
ofl_msg_pack_packet_in(m) ==
    LET b == PutAll(Alloc(PacketInLen(m)), m, 0, ofp_packet_in, Plain)
        c == ofl_structs_match_pack(b, sizeof.ofp_packet_in - sizeof.ofp_match, m.match,
                                    sizeof.ofp_packet_in - 4)
    IN  Put(Put(c, FrameAt(m), <<Zero, Zero>>), FrameAt(m) + 2, Data(m.data))

\* priority is converted as a 64-bit value, hard_timeout is not written
ofl_msg_pack_flow_removed(m) ==
    LET b == Alloc(ROUND_UP((sizeof.ofp_flow_removed - 4) + m.match, 8))
    IN  ofl_structs_match_pack(
            PutAll(b, m, 0, Without(ofp_flow_removed, {"hard_timeout"}), [priority |-> 8]),
            sizeof.ofp_flow_removed - sizeof.ofp_match, m.match, sizeof.ofp_flow_removed - 4)

ofl_msg_pack_port_status(m) ==
    PutEntries(PutAll(Alloc(sizeof.ofp_port_status), m, 0, ofp_port_status, Plain),
               [m EXCEPT !.items = <<sizeof.ofp_port>>], 16)

\* the base that set-field values are written from is the whole buffer
ofl_msg_pack_packet_out(m) ==
    LET act_len == ofl_actions_ofp_total_len(m.acts)
        b == PutAll(Alloc(sizeof.ofp_packet_out + act_len + m.data), m, 0,
                    Without(ofp_packet_out, {"actions_len"}), Plain)
        c == Put(b, ofp_packet_out.actions_len[1], hton(Num(act_len), 2))
    IN  Put(PutActions(c, m.acts, sizeof.ofp_packet_out, 0),
            sizeof.ofp_packet_out + act_len, Data(m.data))

InstructionsAt(m) == ROUND_UP(sizeof.ofp_flow_mod - 4 + m.match, 8)
ofl_msg_pack_flow_mod(m) ==
    LET b == PutAll(Alloc(InstructionsAt(m) + Total(m.items)), m, 0, ofp_flow_mod, Plain)
    IN  PutEntries(ofl_structs_match_pack(b, sizeof.ofp_flow_mod - sizeof.ofp_match, m.match,
                                          sizeof.ofp_flow_mod - 4),
                   m, InstructionsAt(m))

ofl_msg_pack_group_mod(m) ==
    PutEntries(PutAll(Alloc(sizeof.ofp_group_mod + Total(m.items)), m, 0, ofp_group_mod, Plain),
               m, sizeof.ofp_group_mod)
ofl_msg_pack_port_mod(m) ==
    PutAll(Alloc(sizeof.ofp_port_mod), m, 0, ofp_port_mod, [hw_addr |-> 0])
ofl_msg_pack_table_mod(m) == PutAll(Alloc(sizeof.ofp_table_mod), m, 0, ofp_table_mod, Plain)
ofl_msg_pack_meter_mod(m) ==
    PutEntries(PutAll(Alloc(sizeof.ofp_meter_mod + Total(m.items)), m, 0, ofp_meter_mod, Plain),
               m, sizeof.ofp_meter_mod)

\* the masks stay in the order of the host
HostOrder == [packet_in_mask |-> 0, port_status_mask |-> 0, flow_removed_mask |-> 0]
ofl_msg_pack_async_config(m) ==
    PutAll(Alloc(sizeof.ofp_async_config), m, 0, ofp_async_config, HostOrder)

ofl_msg_pack_queue_get_config_request(m) ==
    PutAll(Alloc(sizeof.ofp_queue_get_config), m, 0, ofp_queue_get_config, Plain)
ofl_msg_pack_queue_get_config_reply(m) ==
    PutEntries(PutAll(Alloc(sizeof.ofp_queue_get_config + Total(m.items)), m, 0,
                      ofp_queue_get_config, Plain),
               m, sizeof.ofp_queue_get_config)
ofl_msg_pack_empty(m) == Alloc(sizeof.ofp_header)

-----------------------------------------------------------------------------
(* Multipart messages                                                        *)
Body == sizeof.ofp_multipart

\* a body of one structure
PutBody(m, size, s) == PutAll(Alloc(Body + size), m, Body, s, Plain)
\* a body that is a list
PutList(m) == PutEntries(Alloc(Body + Total(m.items)), m, Body)

ofl_msg_pack_multipart_request_flow(m) ==
    LET size == sizeof.ofp_flow_stats_request
    IN  ofl_structs_match_pack(
            PutAll(Alloc(Body + size + m.match), m, Body, ofp_flow_stats_request, Plain),
            Body + size - sizeof.ofp_match, m.match, Body + size)
ofl_msg_pack_multipart_request_port(m) ==
    PutBody(m, sizeof.ofp_port_stats_request, ofp_port_stats_request)
ofl_msg_pack_multipart_request_queue(m) ==
    PutBody(m, sizeof.ofp_queue_stats_request, ofp_queue_stats_request)
ofl_msg_pack_multipart_request_group(m) ==
    PutBody(m, sizeof.ofp_group_stats_request, ofp_group_stats_request)
ofl_msg_pack_multipart_request_table_features(m) == PutList(m)
ofl_msg_pack_meter_multipart_request(m) ==
    PutBody(m, sizeof.ofp_meter_multipart_request, ofp_meter_multipart_request)
ofl_msg_pack_multipart_request_empty(m) == Alloc(Body)

RequestBody(m) ==
    CASE m.mp \in {"FLOW", "AGGREGATE"}    -> ofl_msg_pack_multipart_request_flow(m)
      [] m.mp = "PORT_STATS"               -> ofl_msg_pack_multipart_request_port(m)
      [] m.mp = "QUEUE"                    -> ofl_msg_pack_multipart_request_queue(m)
      [] m.mp = "GROUP"                    -> ofl_msg_pack_multipart_request_group(m)
      [] m.mp \in {"METER", "METER_CONFIG"} -> ofl_msg_pack_meter_multipart_request(m)
      [] m.mp = "TABLE_FEATURES"           -> ofl_msg_pack_multipart_request_table_features(m)
      [] OTHER                             -> ofl_msg_pack_multipart_request_empty(m)

\* type and flags
PutMultipart(b, m) == PutAll(b, Given(m, "mp", m.mp), 0, ofp_multipart, Plain)
ofl_msg_pack_multipart_request(m) == PutMultipart(RequestBody(m), m)

\* a text of the description that fills its array has no zero behind it
Fills(m, f) == f \in DOMAIN m.val /\ m.val[f] = "filling"
ofl_msg_pack_multipart_reply_desc(m) ==
    LET b == PutAll(Alloc(Body + sizeof.ofp_desc), m, Body, ofp_desc,
                    [f \in DOMAIN ofp_desc |-> 0])
        ends == {Body + ofp_desc[f][1] + ofp_desc[f][2] - 1 :
                    f \in {g \in DOMAIN ofp_desc : ~Fills(m, g)}}
    IN  [n |-> b.n, end |-> b.end,
         at |-> [i \in DOMAIN b.at |-> IF i \in ends THEN Zero ELSE b.at[i]]]
ofl_msg_pack_multipart_reply_flow(m) == PutList(m)
ofl_msg_pack_multipart_reply_aggregate(m) ==
    PutBody(m, sizeof.ofp_aggregate_stats_reply, ofp_aggregate_stats_reply)

\* entries of one fixed size
Fixed(m, size) == Alloc(Body + Len(m.items) * size)
ofl_msg_pack_multipart_reply_table(m) == PutEntries(Fixed(m, sizeof.ofp_table_stats), m, Body)
ofl_msg_pack_multipart_reply_port(m)  == PutEntries(Fixed(m, sizeof.ofp_port_stats), m, Body)
ofl_msg_pack_multipart_reply_queue(m) == PutEntries(Fixed(m, sizeof.ofp_queue_stats), m, Body)
ofl_msg_pack_multipart_reply_group(m) == PutList(m)
ofl_msg_pack_multipart_reply_group_desc(m) == PutList(m)
ofl_msg_pack_multipart_reply_group_features(m) ==
    PutBody(m, sizeof.ofp_group_features_stats, ofp_group_features_stats)
ofl_msg_pack_multipart_reply_table_features(m) == PutList(m)
ofl_msg_pack_multipart_reply_meter_stats(m) == PutList(m)
ofl_msg_pack_multipart_reply_meter_conf(m) == PutList(m)
ofl_msg_pack_multipart_reply_port_status_desc(m) == PutEntries(Fixed(m, sizeof.ofp_port), m, Body)
ofl_msg_pack_multipart_reply_meter_features(m) ==
    PutBody(m, sizeof.ofp_meter_features, ofp_meter_features)

ReplyBody(m) ==
    CASE m.mp = "DESC"           -> ofl_msg_pack_multipart_reply_desc(m)
      [] m.mp = "FLOW"           -> ofl_msg_pack_multipart_reply_flow(m)
      [] m.mp = "AGGREGATE"      -> ofl_msg_pack_multipart_reply_aggregate(m)
      [] m.mp = "TABLE"          -> ofl_msg_pack_multipart_reply_table(m)
      [] m.mp = "TABLE_FEATURES" -> ofl_msg_pack_multipart_reply_table_features(m)
      [] m.mp = "PORT_STATS"     -> ofl_msg_pack_multipart_reply_port(m)
      [] m.mp = "QUEUE"          -> ofl_msg_pack_multipart_reply_queue(m)
      [] m.mp = "GROUP"          -> ofl_msg_pack_multipart_reply_group(m)
      [] m.mp = "GROUP_DESC"     -> ofl_msg_pack_multipart_reply_group_desc(m)
      [] m.mp = "GROUP_FEATURES" -> ofl_msg_pack_multipart_reply_group_features(m)
      [] m.mp = "METER"          -> ofl_msg_pack_multipart_reply_meter_stats(m)
      [] m.mp = "METER_CONFIG"   -> ofl_msg_pack_multipart_reply_meter_conf(m)
      [] m.mp = "METER_FEATURES" -> ofl_msg_pack_multipart_reply_meter_features(m)
      [] m.mp = "PORT_DESC"      -> ofl_msg_pack_multipart_reply_port_status_desc(m)
ofl_msg_pack_multipart_reply(m) == PutMultipart(ReplyBody(m), m)

-----------------------------------------------------------------------------
Packed(m) ==
    CASE m.type = "ERROR"                          -> ofl_msg_pack_error(m)
      [] m.type \in {"ECHO_REQUEST", "ECHO_REPLY"} -> ofl_msg_pack_echo(m)
      [] m.type = "FEATURES_REPLY"                 -> ofl_msg_pack_features_reply(m)
      [] m.type = "GET_CONFIG_REPLY"               -> ofl_msg_pack_get_config_reply(m)
      [] m.type = "SET_CONFIG"                     -> ofl_msg_pack_set_config(m)
      [] m.type = "PACKET_IN"                      -> ofl_msg_pack_packet_in(m)
      [] m.type = "FLOW_REMOVED"                   -> ofl_msg_pack_flow_removed(m)
      [] m.type = "PORT_STATUS"                    -> ofl_msg_pack_port_status(m)
      [] m.type \in {"GET_ASYNC_REPLY", "SET_ASYNC"} -> ofl_msg_pack_async_config(m)
      [] m.type = "PACKET_OUT"                     -> ofl_msg_pack_packet_out(m)
      [] m.type = "FLOW_MOD"                       -> ofl_msg_pack_flow_mod(m)
      [] m.type = "GROUP_MOD"                      -> ofl_msg_pack_group_mod(m)
      [] m.type = "PORT_MOD"                       -> ofl_msg_pack_port_mod(m)
      [] m.type = "TABLE_MOD"                      -> ofl_msg_pack_table_mod(m)
      [] m.type = "METER_MOD"                      -> ofl_msg_pack_meter_mod(m)
      [] m.type = "MULTIPART_REQUEST"              -> ofl_msg_pack_multipart_request(m)
      [] m.type = "MULTIPART_REPLY"                -> ofl_msg_pack_multipart_reply(m)
      [] m.type = "QUEUE_GET_CONFIG_REQUEST"       -> ofl_msg_pack_queue_get_config_request(m)
      [] m.type = "QUEUE_GET_CONFIG_REPLY"         -> ofl_msg_pack_queue_get_config_reply(m)
      [] m.type \in {"ROLE_REQUEST", "ROLE_REPLY"} -> ofl_msg_pack_role_request(m)
      [] OTHER                                     -> ofl_msg_pack_empty(m)

\* the header comes last
ofl_msg_pack(m) ==
    LET b == PutAll(Packed(m), Given(m, "type", m.type), 0, Without(ofp_header, {"length"}), Plain)
    IN  Put(b, ofp_header.length[1], hton(Num(b.n), 2))
=============================================================================
