\* Two tasks, two threads, a queue of two, three phrases.
CONSTANTS
  Tasks = {"shell", "window"}
  Threads = {1, 2}
  Capacity = 2
  MaxPhrases = 3
SPECIFICATION BridgeSpec
INVARIANTS
  OneMicrophone
  TextsInOrder
PROPERTY StopEndsRecognition
