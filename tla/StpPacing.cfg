CONSTANTS
  Rtts <- MCRtts
  PacketSize = 4
  Mss = 4
  min_cwnd = 4
  max_cwnd = 12
  initial_cwnd = 8
  startup_cwnd_gain = 200
  probe_rtt_cwnd_gain = 50
  startup_pacing_gain = 277
  probe_bw_gains <- MCGains
  cycle_phase_len = 1
  probe_rtt_duration = 1
  min_rtt_filter_len = 2
  bw_filter_len = 1
  initial_rtt = 2
  MaxInterval = 3
  MaxAcks = 10
  Duration = 5
  RecvTimeout = 1
  Sleep = 1
SPECIFICATION Spec
INVARIANTS
  PacingTypeOK
  WindowOpensOnlyAfterRttRise
  RateInSync
  PacingOverrun
PROPERTY
  ProbeRttNeedsSilence
