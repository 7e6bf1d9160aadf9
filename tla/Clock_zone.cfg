SPECIFICATION Spec
CONSTANTS
  eastern = eastern
  arizona = arizona
  pacific = pacific
  Configured = eastern
  Strip <- MCStrip
  Midnight <- MCMidnight
  MaxMinutes = 3
  Blank = Blank
INVARIANT ClockIsLocal
