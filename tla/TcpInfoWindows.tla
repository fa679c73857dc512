--------------------------- MODULE TcpInfoWindows ---------------------------
(***************************************************************************)
(* tcpinfo_windows.go: SIO_TCP_INFO of Windows, which answers with one of  *)
(* two versions of its struct.                                             *)
(***************************************************************************)
EXTENDS TcpInfoBase

\* RawInfoV0 and RawInfoV1.
WindowsFields ==
  {"State", "Mss", "ConnectionTimeMs", "TimestampsEnabled", "RttUs", "MinRttUs",
   "BytesInFlight", "Cwnd", "SndWnd", "RcvWnd", "RcvBuf", "BytesOut", "BytesIn",
   "BytesReordered", "BytesRetrans", "FastRetrans", "DupAcksIn", "TimeoutEpisodes",
   "SynRetrans", "SndLimTransRwin", "SndLimTimeRwin", "SndLimBytesRwin",
   "SndLimTransCwnd", "SndLimTimeCwnd", "SndLimBytesCwnd",
   "SndLimTransSnd", "SndLimTimeSnd", "SndLimBytesSnd"}

\* The fields that only RawInfoV1 has.
V1Fields ==
  {"SndLimTransRwin", "SndLimTimeRwin", "SndLimBytesRwin", "SndLimTransCwnd",
   "SndLimTimeCwnd", "SndLimBytesCwnd", "SndLimTransSnd", "SndLimTimeSnd", "SndLimBytesSnd"}

\* tcpStateMap.
WindowsStates ==
  [c \in 0..10 |->
     << "CLOSE", "LISTEN", "SYN_SENT", "SYN_RECV", "ESTABLISHED", "FIN_WAIT1", "FIN_WAIT2",
        "CLOSE_WAIT", "CLOSING", "LAST_ACK", "TIME_WAIT" >>[c + 1]]

-----------------------------------------------------------------------------
\* Unpack of a RawInfoV0: the later fields stay zero.
WindowsUnpackV0(r) ==
  [StateName |-> StateName(WindowsStates, r.State), MSS |-> r.Mss,
   ConnectedTimeNS |-> r.ConnectionTimeMs * Millisecond,
   RTT |-> r.RttUs * Microsecond, RTTMin |-> r.MinRttUs * Microsecond,
   BytesInFlight |-> r.BytesInFlight, CongestionWindow |-> r.Cwnd, TxWindow |-> r.SndWnd,
   RxWindow |-> r.RcvWnd, RxBuffer |-> r.RcvBuf, TxBytes |-> r.BytesOut, RxBytes |-> r.BytesIn,
   RxOutOfOrderBytes |-> r.BytesReordered, TxRetransmitBytes |-> r.BytesRetrans,
   FastRetrans |-> r.FastRetrans, DupAcksIn |-> r.DupAcksIn,
   TimeoutEpisodes |-> r.TimeoutEpisodes, SynRetrans |-> r.SynRetrans,
   SndLimTransRwin |-> 0, SndLimTransTimeRwin |-> 0, SndLimBytesRwin |-> 0,
   SndLimTransCwnd |-> 0, SndLimTimeCwnd |-> 0, SndLimBytesCwnd |-> 0,
   SndLimTransSnd |-> 0, SndLimTimeSnd |-> 0, SndLimBytesSnd |-> 0]

\* Unpack of a RawInfoV1.
WindowsUnpackV1(r) ==
  [StateName |-> StateName(WindowsStates, r.State), MSS |-> r.Mss,
   ConnectedTimeNS |-> r.ConnectionTimeMs * Millisecond,
   RTT |-> r.RttUs * Microsecond, RTTMin |-> r.MinRttUs * Microsecond,
   BytesInFlight |-> r.BytesInFlight, CongestionWindow |-> r.Cwnd, TxWindow |-> r.SndWnd,
   RxWindow |-> r.RcvWnd, RxBuffer |-> r.RcvBuf, TxBytes |-> r.BytesOut, RxBytes |-> r.BytesIn,
   RxOutOfOrderBytes |-> r.BytesReordered, TxRetransmitBytes |-> r.BytesRetrans,
   FastRetrans |-> r.FastRetrans, DupAcksIn |-> r.DupAcksIn,
   TimeoutEpisodes |-> r.TimeoutEpisodes, SynRetrans |-> r.SynRetrans,
   SndLimTransRwin |-> r.SndLimTransRwin,
   SndLimTransTimeRwin |-> r.SndLimTimeRwin * Millisecond,
   SndLimBytesRwin |-> r.SndLimBytesRwin, SndLimTransCwnd |-> r.SndLimTransCwnd,
   SndLimTimeCwnd |-> r.SndLimTimeCwnd * Millisecond, SndLimBytesCwnd |-> r.SndLimBytesCwnd,
   SndLimTransSnd |-> r.SndLimTransSnd, SndLimTimeSnd |-> r.SndLimTimeSnd * Millisecond,
   SndLimBytesSnd |-> r.SndLimBytesSnd]

WindowsToInfo(s) ==
  [EmptyInfo EXCEPT
     !.State = s.StateName, !.TxMSS = s.MSS, !.RTT = s.RTTMin, !.RxWindow = s.RxWindow,
     !.TxWindowSegs = s.TxWindow, !.Retransmits = s.SynRetrans]

WindowsToMap(s) ==
  [state |-> s.StateName, mss |-> s.MSS, connectedTimeNS |-> s.ConnectedTimeNS,
   rtt |-> s.RTT, rttMin |-> s.RTTMin, bytesInFlight |-> s.BytesInFlight,
   congestionWindow |-> s.CongestionWindow, txWindow |-> s.TxWindow, rxWindow |-> s.RxWindow,
   rxBuffer |-> s.RxBuffer, txBytes |-> s.TxBytes, rxBytes |-> s.RxBytes,
   rxOutOfOrderBytes |-> s.RxOutOfOrderBytes, txRetransmitBytes |-> s.TxRetransmitBytes,
   fastRetransmissions |-> s.FastRetrans, duplicateAcksIn |-> s.DupAcksIn,
   timeoutEpisodes |-> s.TimeoutEpisodes, synRetransmissions |-> s.SynRetrans,
   sndLimTransRwin |-> s.SndLimTransRwin, sndLimTimeRwin |-> s.SndLimTransTimeRwin,
   sndLimBytesRwin |-> s.SndLimBytesRwin, sndLimTransCwnd |-> s.SndLimTransCwnd,
   sndLimTimeCwnd |-> s.SndLimTimeCwnd, sndLimBytesCwnd |-> s.SndLimBytesCwnd,
   sndLimTransSnd |-> s.SndLimTransSnd, sndLimTimeSnd |-> s.SndLimTimeSnd,
   sndLimBytesSnd |-> s.SndLimBytesSnd]

\* Mutant: the last of the conditions is missing.
WarningsWithoutFast(s) ==
  {f \in {"TxRetransmitBytes", "SynRetrans", "RxOutOfOrderBytes", "TimeoutEpisodes",
          "DupAcksIn"} : s[f] > 0}

\* SysInfo.Warnings: the fields complained of.
WindowsWarnings(s) ==
  {f \in {"TxRetransmitBytes", "SynRetrans", "RxOutOfOrderBytes", "TimeoutEpisodes",
          "DupAcksIn", "FastRetrans"} : s[f] > 0}
=============================================================================
