CONSTANTS
    Slots = 3
    Attempts = 2
    SPARK_N = 3
    SPARK_W = 14
    SPARK_H = 13
    Temps <- MCTemps
    Hums <- MCHums
    Press <- MCPress
    Scales <- MCScales
    Raws <- MCRaws
SPECIFICATION Spec
INVARIANTS TypeOK PlotInside ScanFinds ShownTrue
