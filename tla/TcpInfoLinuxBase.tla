-------------------------- MODULE TcpInfoLinuxBase --------------------------
(***************************************************************************)
(* tcpinfo_linux.go from the kernel's struct to what is published of it.   *)
(* A nullable field is Valid or not; which are, by kernel version, is what *)
(* TcpInfoLinux is about.                                                  *)
(***************************************************************************)
EXTENDS TcpInfoBase

\* RawTCPInfo.
LinuxFields ==
  {"state", "ca_state", "retransmits", "probes", "backoff", "options", "bitfield0", "bitfield1",
   "rto", "ato", "snd_mss", "rcv_mss", "unacked", "sacked", "lost", "retrans", "fackets",
   "last_data_sent", "last_ack_sent", "last_data_recv", "last_ack_recv", "pmtu",
   "rcv_ssthresh", "rtt", "rttvar", "snd_ssthresh", "snd_cwnd", "advmss", "reordering",
   "rcv_rtt", "rcv_space", "total_retrans",
   "pacing_rate", "max_pacing_rate", "bytes_acked", "bytes_received", "segs_out", "segs_in",
   "notsent_bytes", "min_rtt", "data_segs_in", "data_segs_out", "delivery_rate", "busy_time",
   "rwnd_limited", "sndbuf_limited", "delivered", "delivered_ce", "bytes_sent",
   "bytes_retrans", "dsack_dups", "reord_seen", "rcv_ooopack", "snd_wnd", "rcv_wnd", "rehash",
   "total_rto", "total_rto_recoveries", "total_rto_time"}

\* The nullable fields of SysInfo, and what of RawTCPInfo Unpack puts there; the
\* first two are bits of bitfield1.
NullableSource ==
  [DeliveryRateAppLimited |-> "delivery_rate_app_limited",
   FastOpenClientFail |-> "fastopen_client_fail",
   PacingRate |-> "pacing_rate", MaxPacingRate |-> "max_pacing_rate",
   BytesAcked |-> "bytes_acked", BytesReceived |-> "bytes_received",
   SegsOut |-> "segs_out", SegsIn |-> "segs_in",
   NotSentBytes |-> "notsent_bytes", MinRTT |-> "min_rtt",
   DataSegsIn |-> "data_segs_in", DataSegsOut |-> "data_segs_out",
   DeliveryRate |-> "delivery_rate", BusyTime |-> "busy_time",
   RxWindowLimited |-> "rwnd_limited", TxBufferLimited |-> "sndbuf_limited",
   Delivered |-> "delivered", DeliveredCE |-> "delivered_ce",
   BytesSent |-> "bytes_sent", BytesRetrans |-> "bytes_retrans",
   DSACKDups |-> "dsack_dups", ReordSeen |-> "reord_seen",
   RxOutOfOrder |-> "rcv_ooopack", TxWindow |-> "snd_wnd",
   RxWindow |-> "rcv_wnd", Rehash |-> "rehash", TotalRTO |-> "total_rto",
   TotalRTORecoveries |-> "total_rto_recoveries", TotalRTOTime |-> "total_rto_time"]

\* The keys ToMap adds for the nullable fields that are Valid.
NullableOf ==
  [deliveryRateAppLimited |-> "DeliveryRateAppLimited",
   fastOpenClientFail |-> "FastOpenClientFail",
   pacingRate |-> "PacingRate", maxPacingRate |-> "MaxPacingRate",
   bytesAcked |-> "BytesAcked", bytesReceived |-> "BytesReceived",
   segsOut |-> "SegsOut", segsIn |-> "SegsIn",
   notSentBytes |-> "NotSentBytes", minRTT |-> "MinRTT",
   dataSegsIn |-> "DataSegsIn", dataSegsOut |-> "DataSegsOut",
   deliveryRate |-> "DeliveryRate", busyTime |-> "BusyTime",
   rxWindowLimited |-> "RxWindowLimited", txBufferLimited |-> "TxBufferLimited",
   delivered |-> "Delivered", deliveredCE |-> "DeliveredCE",
   bytesSent |-> "BytesSent", bytesRetrans |-> "BytesRetrans",
   dsackDups |-> "DSACKDups", reordSeen |-> "ReordSeen",
   rxOutOfOrder |-> "RxOutOfOrder", txWindow |-> "TxWindow",
   rxWindow |-> "RxWindow", rehash |-> "Rehash", totalRTO |-> "TotalRTO",
   totalRTORecoveries |-> "TotalRTORecoveries", totalRTOTime |-> "TotalRTOTime"]

\* The rows of tcpInfoSizes, one for each kernel release that changed the struct.
Rows == 1 .. 13

\* The fields each kernel release added, as the comments of RawTCPInfo record.
AddedIn ==
  << {}, {"pacing_rate", "max_pacing_rate"}, {"bytes_acked", "bytes_received"},
     {"segs_out", "segs_in"}, {"notsent_bytes", "min_rtt", "data_segs_in", "data_segs_out"},
     {"delivery_rate_app_limited", "delivery_rate"},
     {"busy_time", "rwnd_limited", "sndbuf_limited"}, {"delivered", "delivered_ce"},
     {"bytes_sent", "bytes_retrans", "dsack_dups", "reord_seen"}, {"rcv_ooopack", "snd_wnd"},
     {"fastopen_client_fail"}, {"rcv_wnd", "rehash"},
     {"total_rto", "total_rto_recoveries", "total_rto_time"} >>

\* Mutants: the fields of 4.6 marked from 4.2 on; snd_wnd never marked.
GatedEarly == [AddedIn EXCEPT ![4] = @ \cup AddedIn[5]]

GatedForgets == [AddedIn EXCEPT ![10] = {"rcv_ooopack"}]

\* The fields Unpack marks Valid under each row's flag.
Gated ==
  [AddedIn EXCEPT
     ![12] = {"rcv_wnd", "rehash", "total_rto", "total_rto_recoveries", "total_rto_time"},
     ![13] = {}]

\* The nullable fields that are Valid on some kernel: a version has its own row's
\* fields and those of the older rows.
LinuxNullable == {UNION {Gated[i] : i \in 1 .. n} : n \in Rows}

\* tcpStateMap.
LinuxStates ==
  <<"ESTABLISHED", "SYN_SENT", "SYN_RECV", "FIN_WAIT1", "FIN_WAIT2", "TIME_WAIT",
    "CLOSE", "CLOSE_WAIT", "LAST_ACK", "LISTEN", "CLOSING">>

\* tcpOptions with tcpOptionsMap.
LinuxOptions ==
  << [bit |-> 1, Kind |-> "Timestamps"], [bit |-> 2, Kind |-> "SACK"],
     [bit |-> 4, Kind |-> "WindowScale"], [bit |-> 8, Kind |-> "ECN"],
     [bit |-> 16, Kind |-> "ECNSeen"], [bit |-> 32, Kind |-> "SYNData"],
     [bit |-> 64, Kind |-> "UsecTS"], [bit |-> 128, Kind |-> "TFOChild"] >>

-----------------------------------------------------------------------------
\* Mutant: the nibble of the other direction.
LowNibble(b) == b % 16

\* The two nibbles of bitfield0.
TxScale(b) == b % 16
RxScale(b) == b \div 16

\* Mutant: one limit is taken for the other.
DecodedCrossed(r, f) ==
  CASE f = "delivery_rate_app_limited" -> r.bitfield1 % 2
    [] f = "fastopen_client_fail" -> (r.bitfield1 \div 2) % 4
    [] f = "min_rtt" -> r.min_rtt * Microsecond
    [] f = "rwnd_limited" -> r.sndbuf_limited
    [] OTHER -> r[f]

\* The value a nullable field gets of the struct; a bool is 0 or 1.
Decoded(r, f) ==
  CASE f = "delivery_rate_app_limited" -> r.bitfield1 % 2
    [] f = "fastopen_client_fail" -> (r.bitfield1 \div 2) % 4
    [] f = "min_rtt" -> r.min_rtt * Microsecond
    [] OTHER -> r[f]

\* A nullable field that is not Valid is left zero.
Nullable(r, valid, f) ==
  [Valid |-> f \in valid, Value |-> IF f \in valid THEN Decoded(r, f) ELSE 0]

\* Unpack, where valid are the nullable fields that the kernel version has.
LinuxUnpack(r, valid) ==
  LET tx == TxScale(r.bitfield0)
      rx == RxScale(r.bitfield0) IN
  [StateName |-> StateName(LinuxStates, r.state), CAState |-> r.ca_state,
   Retransmits |-> r.retransmits, Probes |-> r.probes, Backoff |-> r.backoff,
   TxWindowScale |-> tx, RxWindowScale |-> rx,
   RTO |-> r.rto * Microsecond, ATO |-> r.ato * Microsecond,
   TxMSS |-> r.snd_mss, RxMSS |-> r.rcv_mss, UnAcked |-> r.unacked, Sacked |-> r.sacked,
   Lost |-> r.lost, Retrans |-> r.retrans, Fackets |-> r.fackets,
   LastTxAt |-> r.last_data_sent * Microsecond, LastTxAckAt |-> r.last_ack_sent * Microsecond,
   LastRxAt |-> r.last_data_recv * Microsecond, LastRxAckAt |-> r.last_ack_recv * Microsecond,
   PMTU |-> r.pmtu, RxSSThreshold |-> r.rcv_ssthresh,
   RTT |-> r.rtt * Microsecond, RTTVar |-> r.rttvar * Microsecond,
   TxSSThreshold |-> r.snd_ssthresh, TxCWindow |-> r.snd_cwnd, AdvMSS |-> r.advmss,
   Reordering |-> r.reordering, RxRTT |-> r.rcv_rtt * Microsecond, RxSpace |-> r.rcv_space,
   TotalRetrans |-> r.total_retrans,
   nullable |-> [n \in DOMAIN NullableSource |-> Nullable(r, valid, NullableSource[n])],
   TxOptions |-> Options(LinuxOptions, r.options, tx),
   RxOptions |-> Options(LinuxOptions, r.options, rx)]

LinuxToInfo(s) ==
  [EmptyInfo EXCEPT
     !.State = s.StateName, !.TxOptions = s.TxOptions, !.RxOptions = s.RxOptions,
     !.TxMSS = s.TxMSS, !.RxMSS = s.RxMSS, !.RTT = s.RTT, !.RTTVar = s.RTTVar,
     !.RTO = s.RTO, !.ATO = s.ATO, !.LastTxAt = s.LastTxAt, !.LastRxAt = s.LastRxAt,
     !.LastTxAckAt = s.LastTxAckAt, !.LastRxAckAt = s.LastRxAckAt,
     !.RxWindow = s.RxSpace, !.TxSSThreshold = s.TxSSThreshold,
     !.RxSSThreshold = s.RxSSThreshold, !.TxWindowSegs = s.TxCWindow,
     !.Retransmits = s.TotalRetrans]

\* The keys of SysInfo.ToMap that are always there; ccAlgorithm, like the keys of
\* the algorithm's block, is not of this struct and left out.
LinuxBaseMap(s) ==
  [state |-> s.StateName, caState |-> s.CAState, retransmits |-> s.Retransmits,
   probes |-> s.Probes, backoff |-> s.Backoff, txOptions |-> s.TxOptions,
   rxOptions |-> s.RxOptions, txWindowScale |-> s.TxWindowScale,
   rxWindowScale |-> s.RxWindowScale, rto |-> s.RTO, ato |-> s.ATO, txMSS |-> s.TxMSS,
   rxMSS |-> s.RxMSS, unAcked |-> s.UnAcked, sacked |-> s.Sacked, lost |-> s.Lost,
   retrans |-> s.Retrans, fackets |-> s.Fackets, lastTxAt |-> s.LastTxAt,
   lastTxAckAt |-> s.LastTxAckAt, lastRxAt |-> s.LastRxAt, lastRxAckAt |-> s.LastRxAckAt,
   pmtu |-> s.PMTU, rxSSThreshold |-> s.RxSSThreshold, rtt |-> s.RTT, rttVar |-> s.RTTVar,
   txSSThreshold |-> s.TxSSThreshold, txCWindow |-> s.TxCWindow, advMSS |-> s.AdvMSS,
   reordering |-> s.Reordering, rxRTT |-> s.RxRTT, rxSpace |-> s.RxSpace,
   totalRetrans |-> s.TotalRetrans]

\* SysInfo.ToMap: a nullable field has its key if it is Valid.
LinuxToMap(s) ==
  LET base == LinuxBaseMap(s)
      valid == {k \in DOMAIN NullableOf : s.nullable[NullableOf[k]].Valid} IN
  [k \in DOMAIN base \cup valid |->
     IF k \in valid THEN s.nullable[NullableOf[k]].Value ELSE base[k]]

\* SysInfo.Warnings: the fields complained of.
LinuxWarnings(s) ==
  {f \in {"BytesRetrans", "RxOutOfOrder", "TxBufferLimited", "RxWindowLimited"} :
     s.nullable[f].Valid /\ s.nullable[f].Value > 0} \cup
  {f \in {"TotalRetrans", "Backoff"} : s[f] > 0}
=============================================================================
