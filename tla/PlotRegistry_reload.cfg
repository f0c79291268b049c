\* The instance of PlotRegistry; the registry after a reload.
CONSTANTS
    PlotIds = {1, 2, 3}
    MaxFigures = 3
    MaxPlots = 2
SPECIFICATION Spec
INVARIANTS Registered
