------------------------------ MODULE H3Control ------------------------------
(***************************************************************************)
(* The unidirectional streams of an HTTP/3 connection of h2o               *)
(* (h2o/lib/http3/common.c): the peer's streams, whose type is their first *)
(* byte and which may be control, QPACK encoder or QPACK decoder streams,  *)
(* the SETTINGS exchange, and the three streams that h2o opens itself.     *)
(* The peer is the environment.  A stream's bytes are units: a stream type *)
(* or a frame, or the first half of one, which does not parse yet.         *)
(***************************************************************************)
EXTENDS Integers, Sequences, FiniteSets, SequencesExt

CONSTANTS
    UniStreams,     \* the unidirectional streams the peer may open
    MaxUnits,       \* units the peer sends on one of them
    IsClient,       \* quicly_is_client
    Datagrams       \* the peer's transport parameters allow DATAGRAM frames

VARIABLE ctl

Types == {"control", "encoder", "decoder", "other"}
Critical == {"control", "encoder", "decoder"}

\* The frames of h2o_http3_read_frame's table and the two that do not pass it.
Frames == {"DATA", "HEADERS", "CANCEL_PUSH", "SETTINGS", "SETTINGS_datagram", "SETTINGS_malformed", "PUSH_PROMISE",
           "GOAWAY", "MAX_PUSH_ID", "PRIORITY_UPDATE_REQUEST", "PRIORITY_UPDATE_PUSH", "extension", "oversized"}
IsSettings(f) == f \in {"SETTINGS", "SETTINGS_datagram", "SETTINGS_malformed"}

\* h2o_http3_read_frame on a control stream: what the table allows there; the
\* first column is the sender that may use the frame
ControlFrames(fromClient) ==
    {"CANCEL_PUSH", "GOAWAY", "extension"} \cup {f \in Frames : IsSettings(f)}
        \cup (IF fromClient THEN {"MAX_PUSH_ID", "PRIORITY_UPDATE_REQUEST", "PRIORITY_UPDATE_PUSH"} ELSE {})

\* "incomplete" leaves the bytes where they are; an oversized frame and one the
\* table does not list are errors.
ReadFrame(f) ==
    IF f = "half" THEN "incomplete"
    ELSE IF f = "oversized" THEN "general_protocol"
    ELSE IF f \in ControlFrames(~IsClient) THEN "ok" ELSE "frame_unexpected"

\* h2o_http3_on_create_unidirectional_stream, and h2o_http3_setup with
\* build_firstflight: SETTINGS is the first frame of the control stream
NewIngress == [handler |-> "unknown", buf |-> <<>>, sent |-> 0, end |-> "open", stopped |-> FALSE]
InitCtl ==
    [uni |-> [u \in UniStreams |-> NewIngress], quic |-> "connected", err |-> "none",
     ingress |-> [t \in Critical |-> 0], enc |-> FALSE, datagram |-> FALSE, state |-> "open",
     out |-> [control |-> <<"SETTINGS">>, encoder |-> <<>>, decoder |-> <<>>], handled |-> <<>>, failed |-> {}]

Asserted(c, ok, name) == IF ok THEN c ELSE [c EXCEPT !.failed = @ \cup {name}]

\* h2o_quic_close_connection of a connection whose handshake is under way
CloseConnection(c, err) == IF c.quic = "connected" THEN [c EXCEPT !.quic = "closing", !.err = err] ELSE c

\* h2o_http3_handle_settings_frame: malformed pairs, or datagrams when the
\* transport does not allow them, are errors; otherwise the encoder is created,
\* which is what h2o_http3_has_received_settings looks at
HandleSettingsFrame(c, f) ==
    LET a == Asserted(c, ~c.enc, "SETTINGS received twice")
    IN  IF f = "SETTINGS_malformed" \/ (f = "SETTINGS_datagram" /\ ~Datagrams)
        THEN CloseConnection(a, "frame")
        ELSE [a EXCEPT !.enc = TRUE, !.datagram = (f = "SETTINGS_datagram")]

\* One frame of control_stream_handle_input that could be read; the callback
\* is handle_control_stream_frame, of which only SETTINGS belongs here.
HandleControlFrame(c, f) ==
    IF c.enc = IsSettings(f) \/ f = "DATA" THEN CloseConnection(c, "frame_unexpected")
    ELSE LET h == [c EXCEPT !.handled = Append(@, f)]
         IN  IF IsSettings(f) THEN HandleSettingsFrame(h, f) ELSE h

\* control_stream_handle_input: frame after frame until one is incomplete or
\* the connection closes; what was consumed is dropped from the buffer
ControlStreamHandleInput(c, u) ==
    FoldLeft(LAMBDA a, f :
                 IF a.quic # "connected" \/ a.uni[u].buf = <<>> \/ ReadFrame(Head(a.uni[u].buf)) = "incomplete" THEN a
                 ELSE IF ReadFrame(f) # "ok" THEN CloseConnection(a, ReadFrame(f))
                 ELSE HandleControlFrame([a EXCEPT !.uni[u].buf = Tail(@)], f),
             c, c.uni[u].buf)

\* qpack_encoder_stream_handle_input and qpack_decoder_stream_handle_input:
\* instructions or an error
QpackHandleInput(c, u) ==
    IF "oversized" \in ToSet(c.uni[u].buf) THEN CloseConnection(c, "qpack")
    ELSE [c EXCEPT !.uni[u].buf = SelectSeq(@, LAMBDA f : f = "half")]

\* handle_input of a stream whose type is known; the end of a critical stream,
\* or its reset, closes the connection
HandleInput(c, u) ==
    LET s == c.uni[u]
    IN  CASE s.handler = "discard" -> [c EXCEPT !.uni[u].buf = <<>>]
          [] s.handler \in Critical /\ s.end # "open" -> CloseConnection(c, "closed_critical_stream")
          [] s.handler = "control" /\ s.end = "open" -> ControlStreamHandleInput(c, u)
          [] s.handler \in {"encoder", "decoder"} /\ s.end = "open" -> QpackHandleInput(c, u)
          [] OTHER -> c

\* unknown_type_handle_input: a reset, or half a type, is ignored
UnknownTypeHandleInput(c, u) ==
    LET s == c.uni[u]
        type == Head(s.buf)
        known == IF type \in Critical
                 THEN [c EXCEPT !.ingress[type] = u, !.uni[u].handler = type, !.uni[u].buf = Tail(@)]
                 ELSE [c EXCEPT !.uni[u].handler = "discard", !.uni[u].stopped = TRUE, !.uni[u].buf = Tail(@)]
    IN  IF s.end = "reset" \/ s.buf = <<>> \/ type = "half" THEN c ELSE HandleInput(known, u)

\* ingress_unistream_on_receive and ingress_unistream_on_receive_reset
IngressUnistreamOnReceive(c, u) ==
    IF c.uni[u].handler = "unknown" THEN UnknownTypeHandleInput(c, u) ELSE HandleInput(c, u)

-----------------------------------------------------------------------------
Connected == ctl.quic = "connected"

\* The unit that arrives may complete the half that is buffered.
Receive(u) ==
    /\ Connected /\ ctl.uni[u].end = "open" /\ ctl.uni[u].sent < MaxUnits
    /\ \E unit \in (IF ctl.uni[u].handler = "unknown" THEN Types ELSE Frames) \cup {"half"} :
          ctl' = LET buf == SelectSeq(ctl.uni[u].buf, LAMBDA f : f # "half")
                 IN  IngressUnistreamOnReceive([ctl EXCEPT !.uni[u].buf = Append(buf, unit), !.uni[u].sent = @ + 1], u)

ReceiveEnd(u) ==
    /\ Connected /\ ctl.uni[u].end = "open"
    /\ \E e \in {"eos", "reset"} : ctl' = IngressUnistreamOnReceive([ctl EXCEPT !.uni[u].end = e], u)

\* egress_unistream_on_send_stop
EgressUnistreamOnSendStop == Connected /\ ctl' = CloseConnection(ctl, "closed_critical_stream")

\* h2o_http3_send_shutdown_goaway_frame, then h2o_http3_send_goaway_frame with
\* the last stream once the client had time to see it; the state is that of
\* the connection, which may be closing already
SendShutdownGoawayFrame ==
    /\ ctl.state = "open"
    /\ ctl' = IF Connected THEN [ctl EXCEPT !.out.control = Append(@, "GOAWAY_max"), !.state = "shutdown"]
              ELSE [ctl EXCEPT !.state = "shutdown"]
SendGoawayFrame ==
    /\ ctl.state = "shutdown" /\ Connected
    /\ ctl' = [ctl EXCEPT !.out.control = Append(@, "GOAWAY"), !.state = "half_closed"]

\* h2o_http3_send_qpack_stream_cancel, on the decoder stream
SendQpackStreamCancel ==
    /\ Connected /\ Len(ctl.out.decoder) < MaxUnits
    /\ ctl' = [ctl EXCEPT !.out.decoder = Append(@, "cancel")]

Init == ctl = InitCtl
Next ==
    \/ \E u \in UniStreams : Receive(u) \/ ReceiveEnd(u)
    \/ EgressUnistreamOnSendStop \/ SendShutdownGoawayFrame \/ SendGoawayFrame \/ SendQpackStreamCancel
Spec == Init /\ [][Next]_ctl

-----------------------------------------------------------------------------
(* Properties *)

\* As long as the connection is open, no stream that was recognised as a
\* control or QPACK stream has ended, however its type, its frames and its end
\* were cut into packets.
CriticalStreamsStayOpen ==
    Connected => \A u \in UniStreams : ctl.uni[u].handler \in Critical => ctl.uni[u].end = "open"

\* SETTINGS is the first control frame that is handled and no other is
\* handled twice or before it, also with two control streams.
SettingsComeFirst ==
    /\ ctl.failed = {}
    /\ \A i \in DOMAIN ctl.handled : IsSettings(ctl.handled[i]) = (i = 1)
    /\ ctl.enc => ctl.handled # <<>>

\* Nothing that could be handled is left in the buffer of an open connection.
NothingLeftUnread ==
    Connected => \A u \in UniStreams :
        ctl.uni[u].handler # "unknown" => \A i \in DOMAIN ctl.uni[u].buf : ctl.uni[u].buf[i] = "half"
=============================================================================
