SPECIFICATION FairSpec
CONSTANTS
    None = None
    s1 = s1  s2 = s2  q1 = q1  q2 = q2  t1 = t1  t2 = t2  t3 = t3  wheat = wheat  barley = barley
    Instruments = {wheat, barley}
    Parties <- MCParties
    Tabs = {t1, t2, t3}
    Wants <- MCWants
    Resting <- MCResting
    AtStart <- MCAtStart
    Cash <- MCCash
    GetsBack <- MCGetsBack
    AccountIds <- MCAccountIds
    MaxTrouble = 2
CHECK_DEADLOCK FALSE
INVARIANTS AnswersAreFinal
PROPERTIES EveryTicketIsAnswered
