SPECIFICATION Spec
CONSTANTS
    Workers = 4
    Interval = 3
    Window = 7
    Delay = 3
    MaxTraffic = 1
INVARIANTS ListedIsServed StaysListed
 
