SPECIFICATION Spec
CONSTANTS
  Configs <- MCConfigs
  Group <- MCGroup
  bankGroupArch = FALSE
  tRP = 1
  tRCD = 1
  tCL = 1
  tBURST = 1
  tRAS = 2
  tWLOV = 1
  tRTP = 1
  tWR = 1
  tRTW = 1
  tWTR = 1
  tCS = 1
  tRRD = 1
  tRRD_L = 1
  tCCD_L = 1
  tXAW = 4
  tRFC = 4
  tREFI = 18
  RowOps = {"ROWAAP", "ROWAP"}
INVARIANTS PowerFollowsBanks NoActivateInRefresh RefreshGoesOn RefreshInTime ActivatesSpaced PanicsUnreachable
