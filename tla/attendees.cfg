SPECIFICATION FairSpec
CONSTANTS
    Requests = {q1, q2}
    Ids = {1, 2, 3, 4}
    Emails = {e1, e2}
    Values = {v1}
    Unset = Unset
    e1 = e1
    v1 = v1
    Dtos <- FewFields
    Tables <- OneRow
    MaxStarted = 3
INVARIANTS TypeOK EmailsDistinct LastRevisionShowsRow NothingLeftBehind ForeseenAlone
PROPERTY EveryRequestEnds
CHECK_DEADLOCK FALSE
