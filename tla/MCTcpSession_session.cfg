SPECIFICATION FairSpec
CONSTANTS
  Prog = {"a", "b"}
  kind <- Session_kind
  prog <- Session_prog
  MaxBreak = 2
  MaxCrash = 2
  MaxOdd = 1
INVARIANTS TypeOK OnlineIsRegistered WithdrawnStaysGone ScheduleSurvives 
PROPERTIES ChannelSpec OnlineAgain
