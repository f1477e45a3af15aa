SPECIFICATION DialogSpec
CONSTANTS
    WorstQuality = 3
    Codecs = {"aom", "rav1e", "svt"}
INVARIANTS
    DialogTypeOK
    QuantizersSettle
    SliderKept
PROPERTY HandlersReturn
