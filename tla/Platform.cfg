CONSTANTS
    s1 = s1
    s2 = s2
    k1 = k1
    k2 = k2
    d1 = d1
    d2 = d2
    r1 = r1
    Sockets <- MCSockets
    Marks <- MCMarks
    Never = Never
    ScheduledEnd = 2
    LastTick = 3
    MaxJoins = 3
    MaxRestarts = 1
    MaxEvents = 1
    Clients <- MCClients
    TutorClients <- MCTutorClients
    MaxBoards = 2
    MaxPolls = 1
    MaxWipes = 1
    MaxTasks = 3
    MaxSlot = 2
    MaxMeetings = 2
    Requests <- MCRequests
    MaxMishaps = 1
    MaxVisits = 3
    p1 = p1
    p2 = p2
    Workers <- MCWorkers
    MaxPasses = 2
    MaxRefusals = 1
    MaxFaults = 1
    l1 = l1
    l2 = l2
    Lessons <- MCLessons
    Jobs <- MCWorkers
    LongAhead = 2
    NoHour = NoHour
    LastHour = 4
    MaxMoves = 1
    MaxLapses = 1
    Updates <- MCWorkers
    Evaluations <- MCWorkers
    MaxWrites = 4
    MaxNotes = 3
    MaxLosses = 1
    Callers <- MCWorkers
    LastDay = 2
    MaxResults = 2
    MaxConsents = 3
    MaxMisses = 1
    Askers <- MCWorkers
    MaxSessions = 2
    MaxAdded = 2
    MaxAsked = 2
    u1 = u1
    u2 = u2
    t1 = t1
    t2 = t2
    Editors <- MCWorkers
    Texts <- MCLessons
    NoText = NoText
    MaxChanges = 3
    MaxLists = 1
    MaxBreaks = 1
    Pupils <- MCPupils
    Advisers <- MCAdvisers
    Nobody = Nobody
    Senders <- MCSenders
    MaxLetters = 2
    MaxTies = 2
    MaxOpens = 2
    Deeds <- MCWorkers
    MaxDeeds = 5
    MaxHalts = 1
    Holders <- MCClients
    TutorHolders <- MCTutorClients
    Lines <- MCLessons
    NoLine = NoLine
    Attempts <- MCWorkers
    MaxAttempts = 4
    MaxTroubles = 1
    Errands <- MCWorkers
    Mentors <- MCMentors
    NoMentor = NoMentor
    MaxFiles = 2
    MaxErrands = 3
    MaxTwists = 4
SPECIFICATION Spec
INVARIANTS
    AttendanceIsTrue
    
    
    RoleFitsHistory
    
    
    
    RecordIsTrue
    MaterialsInPlace
    
    
    
    NumbersAreProven
    CourseworkInOrder
PROPERTIES
    ClosedPollIsFinal
    PrivilegedIsKept
CHECK_DEADLOCK FALSE
