SPECIFICATION Spec
CONSTANTS
    request = request
    task = task
    NWorkers = 1
    Connected = {1}
    Calls = {request, task}
    Droppable = {request}
CHECK_DEADLOCK FALSE
INVARIANT PickAnswers
