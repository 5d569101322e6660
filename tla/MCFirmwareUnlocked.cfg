SPECIFICATION FirmwareSpec
CONSTANTS
    Nobody = Nobody
    s1 = s1
    s2 = s2
    Session = {s1, s2}
    Consumer = {c1}
    atomA = atomA
    atomB = atomB
    S3 = s3board
    OffLimits = m5stack
    Earlier = Earlier
    Suite <- MCUnlocked
    QuiesceMap <- MCQuiesceMap
    Target = atomB
INVARIANT MeasuresOwnImage
