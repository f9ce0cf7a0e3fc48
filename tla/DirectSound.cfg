SPECIFICATION Spec
CONSTANTS
    Fifos = {"A"}
    Burst = 2
    Programs <- MCPrograms
    CpuWrites = {1, 2}
INVARIANTS SamplesKept Gapless LinkedIsActive
PROPERTY SoundArrives
