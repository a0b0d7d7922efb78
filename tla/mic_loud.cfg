SPECIFICATION MicSpec
CONSTANTS
  Loudness = {0, 8000, 16000}
  Ring = 4
  Window = 2
  Chunks = {2}
  Full = 31000
  ShortMax = 32767
PROPERTIES
  Normalised
