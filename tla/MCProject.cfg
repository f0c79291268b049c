SPECIFICATION FairSpec
CONSTANTS
    d1 = d1  d2 = d2  form = form  x = x  y = y
    Devices = {d1, d2}
    Threaded = {d2}
    Forms = {form}
    Files = {x, y}
    Saved <- Experiments
    StartFiles <- Arguments
    None = None
    MaxLoads = 2
    MaxTimers = 2
    MaxQueue = 1
INVARIANTS TypeOK NamesHaveDevices SaveFindsDevices NoDeviceOutlivesProject SavePathNamesProject LoadedProjectStays
PROPERTIES DeferredCloseHappens
