------------------------------ MODULE OpenFlow ------------------------------
(***************************************************************************)
(* The wire structures of include/cc_openflow_13.c and the conversions     *)
(* between the host's byte order and the network's.                        *)
(*                                                                         *)
(* A byte is a pair: <<f, k>> is the k-th byte, least significant first,   *)
(* of the value whose name is f.  Names keep apart every permutation,      *)
(* truncation and loss of bytes.  The host is little-endian.               *)
(***************************************************************************)
EXTENDS Integers, FiniteSets, SequencesExt

Zero == <<"0", 1>>
Junk == <<"?", 1>>      \* memory that malloc returned and nobody wrote

Value(name, width) == [k \in 1..width |-> <<name, k>>]

\* A 16-bit number that the code computes with
Num(n) == << <<"lo", n>>, <<"hi", n>> >>

\* v with zeros on top, or without its top bytes
Resized(v, width) == [k \in 1..width |-> IF k <= Len(v) THEN v[k] ELSE Zero]

\* htons, htonl, hton64 and their inverses, by the width of their parameter;
\* width 0: the value is copied as it is.
hton(v, width) == IF width = 0 THEN v ELSE Reverse(Resized(v, width))

ROUND_UP(x, y) == ((x + y - 1) \div y) * y

-----------------------------------------------------------------------------
(* Structures: offset and width of each member, padding left out.  Bodies of *)
(* multipart messages count from the body.  One element stands for an array. *)
ofp_header == [version |-> <<0, 1>>, type |-> <<1, 1>>, length |-> <<2, 2>>, xid |-> <<4, 4>>]
ofp_match  == [length |-> <<2, 2>>]

ofp_error_msg == [type |-> <<8, 2>>, code |-> <<10, 2>>]
ofp_switch_features ==
    [datapath_id |-> <<8, 8>>, n_buffers |-> <<16, 4>>, n_tables |-> <<20, 1>>,
     auxiliary_id |-> <<21, 1>>, capabilities |-> <<24, 4>>]
ofp_switch_config == [flags |-> <<8, 2>>, miss_send_len |-> <<10, 2>>]
ofp_table_mod == [table_id |-> <<8, 1>>, config |-> <<12, 4>>]
ofp_flow_mod ==
    [cookie |-> <<8, 8>>, cookie_mask |-> <<16, 8>>, table_id |-> <<24, 1>>,
     command |-> <<25, 1>>, idle_timeout |-> <<26, 2>>, hard_timeout |-> <<28, 2>>,
     priority |-> <<30, 2>>, buffer_id |-> <<32, 4>>, out_port |-> <<36, 4>>,
     out_group |-> <<40, 4>>, flags |-> <<44, 2>>]
ofp_group_mod == [command |-> <<8, 2>>, type |-> <<10, 1>>, group_id |-> <<12, 4>>]
ofp_port_mod ==
    [port_no |-> <<8, 4>>, hw_addr |-> <<16, 6>>, config |-> <<24, 4>>,
     mask |-> <<28, 4>>, advertise |-> <<32, 4>>]
ofp_meter_mod == [command |-> <<8, 2>>, flags |-> <<10, 2>>, meter_id |-> <<12, 4>>]
ofp_packet_out == [buffer_id |-> <<8, 4>>, in_port |-> <<12, 4>>, actions_len |-> <<16, 2>>]
ofp_role_request == [role |-> <<8, 4>>, generation_id |-> <<16, 8>>]
ofp_async_config ==
    [packet_in_mask |-> <<8, 4>>, port_status_mask |-> <<16, 4>>,
     flow_removed_mask |-> <<24, 4>>]
ofp_packet_in ==
    [buffer_id |-> <<8, 4>>, total_len |-> <<12, 2>>, reason |-> <<14, 1>>,
     table_id |-> <<15, 1>>, cookie |-> <<16, 8>>]
ofp_flow_removed ==
    [cookie |-> <<8, 8>>, priority |-> <<16, 2>>, reason |-> <<18, 1>>,
     table_id |-> <<19, 1>>, duration_sec |-> <<20, 4>>, duration_nsec |-> <<24, 4>>,
     idle_timeout |-> <<28, 2>>, hard_timeout |-> <<30, 2>>,
     packet_count |-> <<32, 8>>, byte_count |-> <<40, 8>>]
ofp_port_status == [reason |-> <<8, 1>>]
ofp_queue_get_config == [port |-> <<8, 4>>]     \* _request and _reply

ofp_multipart == [mp |-> <<8, 2>>, flags |-> <<10, 2>>]     \* _request and _reply
ofp_desc ==
    [mfr_desc |-> <<0, 256>>, hw_desc |-> <<256, 256>>, sw_desc |-> <<512, 256>>,
     serial_num |-> <<768, 32>>, dp_desc |-> <<800, 256>>]
ofp_flow_stats_request ==
    [table_id |-> <<0, 1>>, out_port |-> <<4, 4>>, out_group |-> <<8, 4>>,
     cookie |-> <<16, 8>>, cookie_mask |-> <<24, 8>>]
ofp_aggregate_stats_reply ==
    [packet_count |-> <<0, 8>>, byte_count |-> <<8, 8>>, flow_count |-> <<16, 4>>]
ofp_port_stats_request == [port_no |-> <<0, 4>>]
ofp_queue_stats_request == [port_no |-> <<0, 4>>, queue_id |-> <<4, 4>>]
ofp_group_stats_request == [group_id |-> <<0, 4>>]
ofp_group_features_stats ==
    [types |-> <<0, 4>>, capabilities |-> <<4, 4>>, max_groups |-> <<8, 4>>,
     actions |-> <<24, 4>>]
ofp_meter_multipart_request == [meter_id |-> <<0, 4>>]
ofp_meter_features ==
    [max_meter |-> <<0, 4>>, band_types |-> <<4, 4>>, capabilities |-> <<8, 4>>,
     max_bands |-> <<12, 1>>, max_color |-> <<13, 1>>]

\* sizeof of the structures; those of the entries of a list are the smallest
\* size of an entry.
sizeof ==
    [ofp_header |-> 8, ofp_match |-> 8, ofp_error_msg |-> 12, ofp_switch_features |-> 32,
     ofp_switch_config |-> 12, ofp_table_mod |-> 16, ofp_flow_mod |-> 56,
     ofp_group_mod |-> 16, ofp_port_mod |-> 40, ofp_meter_mod |-> 16,
     ofp_packet_out |-> 24, ofp_role_request |-> 24, ofp_async_config |-> 32,
     ofp_packet_in |-> 32, ofp_flow_removed |-> 56, ofp_port_status |-> 80,
     ofp_queue_get_config |-> 16, ofp_multipart |-> 16, ofp_desc |-> 1056,
     ofp_flow_stats_request |-> 40, ofp_aggregate_stats_reply |-> 24,
     ofp_port_stats_request |-> 8, ofp_queue_stats_request |-> 8,
     ofp_group_stats_request |-> 8, ofp_group_features_stats |-> 40,
     ofp_meter_multipart_request |-> 8, ofp_meter_features |-> 16,
     ofp_instruction |-> 8, ofp_bucket |-> 16, ofp_meter_band |-> 16,
     ofp_packet_queue |-> 16, ofp_port |-> 64, ofp_flow_stats |-> 56,
     ofp_table_stats |-> 24, ofp_port_stats |-> 112, ofp_queue_stats |-> 40,
     ofp_group_stats |-> 40, ofp_group_desc_stats |-> 8, ofp_table_features |-> 64,
     ofp_meter_stats |-> 40, ofp_meter_config |-> 8,
     ofp_action_header |-> 8, ofp_action_output |-> 16, ofp_action_set_field |-> 8]
=============================================================================
