SPECIFICATION Spec
SYMMETRY Symmetry
CONSTANTS
    Cells = {c1, c2}
    MaxSubpasses = 3
    MaxDraws = 3
    MaxAccesses = 4
    MaxRecords = 1
    ReadersPassOn = TRUE
    Outside = {"TransferRead", "TransferWrite", "ComputeShaderWrite", "ComputeShaderReadOther",
               "ComputeShaderReadSampledImage"}
    Draws = {"VertexShaderReadOther", "FragmentShaderReadOther", "FragmentShaderWrite",
             "VertexShaderReadSampledImage", "FragmentShaderReadSampledImage",
             "ColorAttachmentWrite", "ColorAttachmentReadWrite"}
INVARIANTS
    AccessesOrdered
    ReadsSeeWrites
CHECK_DEADLOCK FALSE
