SPECIFICATION Spec
CONSTANTS
  None = None
  Log = Log
  Home = Home
  gg = gg
  hh = hh
  ta = ta
  tb = tb
  vv = vv
  vw = vw
  tx = tx
  Guilds = {gg, hh}
  Channels = {ta, tb, vv, vw, tx}
  Voice = {vv, vw}
  Logged = {gg}
  GuildOf <- MCGuildOf
  Stories <- MCStories
CHECK_DEADLOCK FALSE
INVARIANT ListsConverge
 
 
