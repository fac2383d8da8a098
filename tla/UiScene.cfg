\* See MCUiScene for the scenes, the widths and the places.
CONSTANTS
  Scenes <- MCScenes
  Widths <- MCWidths
  Xs <- MCXs
  Ys <- MCYs
  Buttons = {1, 3}
SPECIFICATION Spec
INVARIANTS
  ChartIsWhatWasPlotted
  PressTakesDrawnCard
  HeldIsPressed
PROPERTIES
  ReleaseReportsPressed
  OnlyPressedSliderMoves
CHECK_DEADLOCK FALSE
