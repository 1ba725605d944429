\* Two ordinary keys, left Ctrl, AltGr and a scancode without keysym; every
\* single-flag pointer event; key and pointer events before and after the
\* session reaches UP_AND_RUNNING.
CONSTANTS
  Keys = {97, 98}
  NoSym = 0
  MouseEvents <- SingleFlagEvents
SPECIFICATION Spec
INVARIANT TypeOK
INVARIANT NoStuckKeys
INVARIANT ButtonsInSync
