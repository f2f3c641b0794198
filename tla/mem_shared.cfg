CONSTANTS
  SLOTS = 2
  FRAMES = 6
  LAYER_PAGES = 2
  CODE_PAGES = 1
  STACK_PAGES = 1
  PROGRAMS = 3
  UserWord = {0, 7}
SPECIFICATION Spec
PROPERTY MappedPrivately
CHECK_DEADLOCK FALSE
