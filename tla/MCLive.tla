------------------------------- MODULE MCLive -------------------------------
EXTENDS Live

\* Contents are only compared, so any of them will do for the table to begin with.
OneInit == Init /\ table = 1
FromOne == OneInit /\ [][Next]_vars /\ Fairness

\* The panel without polls, its stream served and read: what the stream alone gives.
Streaming ==
    \A c \in Clients : /\ WF_vars(Connect(c)) /\ WF_vars(Reading(Stream(c)))
                       /\ WF_vars(Greet(c)) /\ WF_vars(Subscribe(c)) /\ WF_vars(Deliver(c))
StreamSpec == FairSpec /\ Streaming
=============================================================================
