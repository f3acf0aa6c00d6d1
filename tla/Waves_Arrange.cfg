SPECIFICATION WavesSpec
CONSTANTS
  Height = 17
  Edge = 2
INVARIANTS BarsFollow HandleFindsWave DragReady
