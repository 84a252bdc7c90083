SPECIFICATION MCSpec
CONSTANTS
    hi = hi
    mid = mid
    lo = lo
    idle = idle
    m1 = m1
    m2 = m2
    IdleTask = idle
    Tasks <- MCTasks
    Queues = {m1, m2}
    MaxPriorities = 4
    TickMod = 4
    Modes <- MCModes
    Program <- MCProgram
    Interrupts <- MCInterrupts
    Boot <- MCBoot
    MaxPended = 1
    MaxNotified = 2
    once = once
    again = again
    BufferCells = 4
    Buffer <- MCBuffer
    Trigger = 1
    Timers = {once, again}
    TimerQueue = m1
    Period <- MCPeriod
    AutoReload = {again}
    MaxLag = 1
INVARIANT SchedulerIsExact
INVARIANT PriorityIsLent
PROPERTY NothingIsLost
PROPERTY MutexIsLock
