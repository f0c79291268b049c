\* The instance of MCDataManagement_plots; graphs that are no longer updated.
CONSTANTS
    i1 = i1
    i2 = i2
    slider = slider
    led = led
    button = button
    cell1 = cell1
    cell2 = cell2
    p1 = p1
    p2 = p2
    p3 = p3
    form1 = form1
    form2 = form2
    fig1 = fig1
    fig2 = fig2
    Ids = {i1, i2}
    Widgets = {}
    Plots = {p1, p2, p3}
    Names = {"Plot#1", "graph"}
    NameOf <- MCNameOf
    None = None
    NoId = NoId
    MaxGraphs = 4
    MaxDrops = 3
    MaxLoads = 2
    Sliders = {}
    Indicators = {}
    Buttons = {}
    Forms = {form1}
    Figures = {fig1, fig2}
    Content <- PlotsContent
    Experiments <- PlotsFiles
SPECIFICATION Spec
INVARIANTS GraphsAreUpdated
