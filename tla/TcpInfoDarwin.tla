--------------------------- MODULE TcpInfoDarwin ----------------------------
(***************************************************************************)
(* tcpinfo_darwin.go: TCP_CONNECTION_INFO of macOS.                        *)
(***************************************************************************)
EXTENDS TcpInfoBase

\* RawInfo.
DarwinFields ==
  {"State", "SendWscale", "RecvWscale", "Options", "Flags", "RTO", "MaxSeg",
   "SendSSThresh", "SendCwnd", "SendWnd", "SendSBBytes", "RecvWnd", "RTTCur", "SRTT",
   "RTTVar", "TFOFlags", "TxPackets", "TxBytes", "TxRetransmitBytes", "RxPackets",
   "RxBytes", "RxOutOfOrderBytes", "TxRetransmitPackets"}

\* tcpStateMap.
DarwinStates ==
  [c \in 0..10 |->
     << "CLOSE", "LISTEN", "SYN_SENT", "SYN_RECV", "ESTABLISHED", "CLOSE_WAIT", "FIN_WAIT1",
        "CLOSING", "LAST_ACK", "FIN_WAIT2", "TIME_WAIT" >>[c + 1]]

\* tcpOptions with tcpOptionsMap.
DarwinOptions ==
  << [bit |-> 1, Kind |-> "Timestamps"], [bit |-> 2, Kind |-> "SACK"],
     [bit |-> 4, Kind |-> "WindowScale"], [bit |-> 8, Kind |-> "ECN"] >>

\* tcpInfoTCPFlagsString, before the names are joined.
Flags(mask) ==
  SelectSeq(<<"LOSS_RECOVERY", "REORDERING_DETECTED">>,
            LAMBDA f : Bit(mask, IF f = "LOSS_RECOVERY" THEN 1 ELSE 2))

-----------------------------------------------------------------------------
DarwinUnpack(r) ==
  [StateName |-> StateName(DarwinStates, r.State),
   TxWindowScale |-> r.SendWscale, RxWindowScale |-> r.RecvWscale, Flags |-> Flags(r.Flags),
   RTO |-> r.RTO * Millisecond, MaxSeg |-> r.MaxSeg, TxSSThreshold |-> r.SendSSThresh,
   TxCWindow |-> r.SendCwnd, TxWindow |-> r.SendWnd, TxSendBufferBytes |-> r.SendSBBytes,
   RxWindow |-> r.RecvWnd, RTTCur |-> r.RTTCur * Millisecond, SRTT |-> r.SRTT * Millisecond,
   RTTVar |-> r.RTTVar * Millisecond, TFOFlags |-> r.TFOFlags,
   TxPackets |-> r.TxPackets, TxBytes |-> r.TxBytes, TxRetransmitBytes |-> r.TxRetransmitBytes,
   RxPackets |-> r.RxPackets, RxBytes |-> r.RxBytes, RxOutOfOrderBytes |-> r.RxOutOfOrderBytes,
   TxRetransmitPackets |-> r.TxRetransmitPackets,
   TxOptions |-> Options(DarwinOptions, r.Options, r.SendWscale),
   RxOptions |-> Options(DarwinOptions, r.Options, r.RecvWscale)]

DarwinToInfo(s) ==
  [EmptyInfo EXCEPT
     !.State = s.StateName, !.TxOptions = s.TxOptions, !.RxOptions = s.RxOptions,
     !.TxMSS = s.MaxSeg, !.RxMSS = s.MaxSeg, !.RTT = s.SRTT, !.RTTVar = s.RTTVar,
     !.RTO = s.RTO, !.RxWindow = s.RxWindow, !.TxSSThreshold = s.TxSSThreshold,
     !.TxWindowBytes = s.TxCWindow, !.TxWindowSegs = s.TxWindow,
     !.Retransmits = s.TxRetransmitPackets]

DarwinToMap(s) ==
  [state |-> s.StateName, txWindowScale |-> s.TxWindowScale, rxWindowScale |-> s.RxWindowScale,
   txOptions |-> s.TxOptions, rxOptions |-> s.RxOptions, flags |-> s.Flags, rto |-> s.RTO,
   mss |-> s.MaxSeg, txSSThreshold |-> s.TxSSThreshold, txCWindowBytes |-> s.TxCWindow,
   txWindow |-> s.TxWindow, txSendBufferBytes |-> s.TxSendBufferBytes, rxWindow |-> s.RxWindow,
   rttCur |-> s.RTTCur, rttSmoothed |-> s.SRTT, rttVar |-> s.RTTVar, tfoFlags |-> s.TFOFlags,
   txPackets |-> s.TxPackets, txBytes |-> s.TxBytes, txRetransmitBytes |-> s.TxRetransmitBytes,
   rxPackets |-> s.RxPackets, rxBytes |-> s.RxBytes, rxOutOfOrderBytes |-> s.RxOutOfOrderBytes,
   txRetransmitPackets |-> s.TxRetransmitPackets]

\* SysInfo.Warnings: the fields complained of.
DarwinWarnings(s) ==
  {f \in {"TxRetransmitBytes", "TxRetransmitPackets", "RxOutOfOrderBytes"} : s[f] > 0}
=============================================================================
