\* Two ids, two widgets of one name, two plots of one name; and a plot of two
\* containers.
CONSTANTS
    Ids = {i1, i2}
    Widgets = {w1, w2}
    Plots = {p1, p2}
    Names = {"cell", "Plot#1"}
    NameOf <- MCNameOf
    None = None
    MaxGraphs = 1
    Sources <- MCSources
    Bases = {"long", "late", "one"}
    Samples <- MCSamples
    PlotGraphs = 3
    MaxData = 1
    MaxSteps = 4
SPECIFICATION MCSpec
INVARIANTS TypeOK HomeByName NoDangling
PROPERTIES Settles AxisComesBack
