SPECIFICATION ReplaySpec
CONSTANTS
  player = player
  weapon = weapon
  witch = witch
  Slots = {1, 2}
  PlayerSlots = {1}
  Classes = {player, weapon, witch}
  Player = player
  Users = {u1, u2}
  Props = {p1}
  Values = {0, 1}
  InstanceBaseline <- Baselines
  Local = 1
  None = None
  MaxHistory = 2
  PacketCap = 3
  EntityCap = 2
  carry = carry
  pummel = pummel
  charger = charger
  ellis = ellis
  zoey = zoey
  Nobody = Nobody
  PinFields = {carry, pummel}
  Tank = "Tank"
  KillGap = 1
  DeathGap = 1
  SpawnGap = 1
  SampleGap = 1
  Second = 2
  MatchStates <- Turns
  ann = ann
  bob = bob
  cat = cat
  dan = dan
  Missing = Missing
  Caps <- MCCaps
  Policy <- MCPolicy
  Orthogonal = {"aim", "movement"}
  Accepted = TRUE
CONSTRAINT SmallGame
SYMMETRY Symmetry
CHECK_DEADLOCK FALSE
INVARIANTS FramesAreSent RowsAreLossless  ClearsAreKills HitsAreApart HalvesAgree PageAndCareerAgree  PlayPaysOff
