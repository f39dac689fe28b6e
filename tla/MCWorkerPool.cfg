SPECIFICATION FairSpec
CONSTANTS
    request = request
    task = task
    NWorkers = 2
    Connected = {2}
    Calls = {request, task}
    Droppable = {request}
CHECK_DEADLOCK FALSE
PROPERTIES LoadBalanced BegunCallEnds
