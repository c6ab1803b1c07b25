SPECIFICATION FairSpec
CONSTANT IRQ = {1, 2, 3}
INVARIANTS Inv NoReentry MaskRestored NumberDefined DepthBound
PROPERTIES Served ForegroundResumes
